---- MODULE Spec2Model ----
(***************************************************************************)
(* Model of the news synthesis pipeline of vinkelnagent:                   *)
(*   NewsAgent.process_news_topic   (src/src/agents/news_agent.py)         *)
(*   LLMManager                     (src/src/components/llm_manager.py)    *)
(*   SupabaseVectorStore            (src/src/vectorstores/supabase_store.py)*)
(*   ProcessingInput and the result models (src/src/models/news_models.py) *)
(*                                                                         *)
(* The source provider (web scraper), the text generator (LLM chains), the *)
(* database behind the store and the publisher are external: each call to  *)
(* one of them either raises or returns a value drawn from a small set.    *)
(*                                                                         *)
(* Conventions.  A Python str is a sequence of tokens (TLA+ strings); an   *)
(* f-string is the concatenation of its parts.  Optional[T] is a sequence: *)
(* None is <<>> and a value v is <<v>>.  An exception is its message, a    *)
(* str.  Letters outside ASCII are written without their marks, and the    *)
(* bullet character is the token "(bullet)".  A None held in a field that  *)
(* is otherwise a TLA+ string is the token Null.  Scores are hundredths.   *)
(*                                                                         *)
(* Specifications.  Spec is one run of process_news_topic.  StoreSpec is   *)
(* several writers (two batches and the feed ingestion) adding to one      *)
(* table.  SearchSpec is similarity_search called while a batch is added.  *)
(* UnitSpec calls single LLMManager methods on arbitrary article lists.    *)
(***************************************************************************)
EXTENDS Integers, Sequences, FiniteSets, TLC

\* ------------------------------------------------------------------ bounds
\* The longest article list the source provider returns (besides the one
\* list that exceeds the prompt limit, see FindResults).
MaxArticles == 2

\* ------------------------------------------------------- program constants
\* _format_articles_for_prompt: articles[:10]
PromptArticleLimit == 10
\* _format_context_for_prompt: context_entries[:5]
PromptContextLimit == 5
\* _extract_key_facts: facts[:5]
KeyFactsLimit == 5
\* generate_neutral_summary: related_context[:3]
SnippetLimit == 3
\* _generate_internal_links: related_context[:3]
LinkLimit == 3
\* generate_neutral_summary: entry.content[:200]
SnippetChars == 200
\* add_article: article.content[:1000]
EmbedChars == 1000

\* ------------------------------------------------------------ Python values
None == <<>>
Some(v) == <<v>>

\* None in a field that is kept as a TLA+ string (NewsArticle.source_name).
Null == "(null)"

Min(a, b) == IF a <= b THEN a ELSE b

\* The three bias labels, in the order the code iterates over them.
BiasOrder == <<"Left", "Center", "Right">>
Labels == {"Left", "Center", "Right"}

\* bias.lower()
Lower(bias) ==
    CASE bias = "Left" -> "left"
      [] bias = "Center" -> "center"
      [] bias = "Right" -> "right"
      [] OTHER -> bias

\* Whitespace tokens, what str.strip() removes.
Whitespace == {" ", "\n"}

RECURSIVE LStrip(_)
LStrip(s) ==
    IF s # <<>> /\ Head(s) \in Whitespace THEN LStrip(Tail(s)) ELSE s

RECURSIVE RStrip(_)
RStrip(s) ==
    IF s # <<>> /\ s[Len(s)] \in Whitespace
    THEN RStrip(SubSeq(s, 1, Len(s) - 1))
    ELSE s

\* str.strip()
Strip(s) == RStrip(LStrip(s))

\* seq[:n]
Take(s, n) == SubSeq(s, 1, Min(Len(s), n))

\* ------------------------------------------------------------------ articles
\* NewsArticle (models/news_models.py): the fields the pipeline reads.
\* source_name is always a str: extract_article_content passes source=, and
\* NewsArticle.__init__ copies it into source_name.
MkArticle(title, content, url, source, bias) ==
    [title |-> title, content |-> content, url |-> url,
     source_name |-> source, political_bias |-> bias]

ArtL1 == MkArticle(<<"t1">>, <<"body1">>, <<"https://aftonbladet.se/", "a1">>, "Aftonbladet", "Left")
ArtC == MkArticle(<<"t3">>, <<"body3">>, <<"https://dn.se/", "a3">>, "Dagens Nyheter", "Center")
ArtR == MkArticle(<<"t4">>, <<"body4">>, <<"https://svenskadagbladet.se/", "a4">>, "Svenska Dagbladet", "Right")
ArticlePool == {ArtL1, ArtC, ArtR}

\* Articles no source provider returns, which a caller of the LLMManager
\* can still pass: one whose political_bias was assigned a value outside the
\* three labels (assignments are not validated), and one built with
\* source_name=None next to its source.
ArtOther == MkArticle(<<"t5">>, <<"body2">>, <<"https://example.org/", "a5">>, "Bloggen", "Far-Left")
ArtNoName == MkArticle(<<"t6">>, <<"body2">>, <<"https://expressen.se/", "a6">>, Null, "Left")

\* The same page as ArtL1 fetched a second time: same url and text, another title.
ArtL1Refetched == [ArtL1 EXCEPT !.title = <<"t1 (updated)">>]

\* Two pages of one source whose urls and texts differ where the url ends
\* and the text begins: ".../a" with the text "1 body2" and ".../a1" with
\* the text " body2".
ArtShiftA == MkArticle(<<"t7">>, <<"1", "body2">>, <<"https://dn.se/", "a">>, "Dagens Nyheter", "Center")
ArtShiftB == MkArticle(<<"t8">>, <<"body2">>, <<"https://dn.se/", "a", "1">>, "Dagens Nyheter", "Center")

\* A result list longer than the prompt limit: Left articles of two
\* sources in turn, with pairwise distinct urls.
LongPaths == <<"n1", "n2", "n3", "n4", "n5", "n6", "n7", "n8", "n9", "n10", "n11", "n12">>
LongList ==
    [i \in 1..(PromptArticleLimit + 1) |->
        IF i % 2 = 1
        THEN MkArticle(<<"long">>, <<"body1">>, <<"https://aftonbladet.se/", LongPaths[i]>>, "Aftonbladet", "Left")
        ELSE MkArticle(<<"long">>, <<"body2">>, <<"https://expressen.se/", LongPaths[i]>>, "Expressen", "Left")]

\* Sequences over S without repetition, of length at most n.
RECURSIVE DistinctSeqs(_, _)
DistinctSeqs(S, n) ==
    IF n = 0 THEN {<<>>}
    ELSE {<<>>} \cup
         UNION {{<<x>> \o t : t \in DistinctSeqs(S \ {x}, n - 1)} : x \in S}

\* What find_articles_for_topic can return: it removes duplicate urls
\* (web_scraper.py:316-325), so the urls of a list are pairwise distinct.
FindResults == DistinctSeqs(ArticlePool, MaxArticles) \cup {LongList}

\* ------------------------------------------------------------------- input
\* ProcessingInput: three optional fields.  A str field may be "" (falsy).
MkInput(title, url, description) ==
    [topic_title |-> title, topic_url |-> url, topic_description |-> description]

\* A url of a known source (SWEDISH_NEWS_SOURCES) and one of an unknown domain.
KnownUrl == ArtL1.url
UnknownUrl == <<"https://example.org/", "x">>
KnownDomains == {"https://aftonbladet.se/", "https://expressen.se/", "https://dn.se/", "https://svenskadagbladet.se/"}

Inputs ==
    { MkInput(None, None, None),
      MkInput(Some(<<>>), None, Some(<<>>)),
      MkInput(Some(<<"Val 2024">>), Some(UnknownUrl), Some(<<"beskrivning">>)),
      MkInput(None, Some(UnknownUrl), Some(<<"beskrivning">>)),
      MkInput(Some(<<>>), Some(UnknownUrl), Some(<<>>)),
      MkInput(None, Some(KnownUrl), None) }

\* Python truthiness of an Optional[str] / Optional[HttpUrl].
Truthy(opt) == opt # None /\ opt[1] # <<>>

\* A faulty variant of get_search_query: an empty input yields the empty query
\* instead of a ValueError.
GetSearchQueryNoRaise(inp) ==
    IF Truthy(inp.topic_title) THEN [ok |-> TRUE, value |-> inp.topic_title[1]]
    ELSE IF Truthy(inp.topic_description) THEN [ok |-> TRUE, value |-> inp.topic_description[1]]
    ELSE IF Truthy(inp.topic_url) THEN [ok |-> TRUE, value |-> inp.topic_url[1]]
    ELSE [ok |-> TRUE, value |-> <<>>]

\* A faulty variant of get_search_query: the description is tried before the
\* title.
GetSearchQueryDescriptionFirst(inp) ==
    IF Truthy(inp.topic_description) THEN [ok |-> TRUE, value |-> inp.topic_description[1]]
    ELSE IF Truthy(inp.topic_title) THEN [ok |-> TRUE, value |-> inp.topic_title[1]]
    ELSE IF Truthy(inp.topic_url) THEN [ok |-> TRUE, value |-> inp.topic_url[1]]
    ELSE [ok |-> FALSE, value |-> <<"At least one input field must be provided">>]

\* ProcessingInput.get_search_query: the query, or the ValueError it raises.
GetSearchQuery(inp) ==
    IF Truthy(inp.topic_title) THEN [ok |-> TRUE, value |-> inp.topic_title[1]]
    ELSE IF Truthy(inp.topic_description) THEN [ok |-> TRUE, value |-> inp.topic_description[1]]
    ELSE IF Truthy(inp.topic_url) THEN [ok |-> TRUE, value |-> inp.topic_url[1]]
    ELSE [ok |-> FALSE, value |-> <<"At least one input field must be provided">>]

\* ------------------------------------------------------------------ results
\* NeutralSummary(summary, key_facts, related_context, internal_links)
MkNeutral(summary, facts, context, links) ==
    [summary |-> summary, key_facts |-> facts,
     related_context |-> context, internal_links |-> links]

\* ProcessingResult; the timestamp is left out.
MkResult(topic, neutral, summaries, viz, arts, post) ==
    [topic |-> topic, neutral_summary |-> neutral, bias_summaries |-> summaries,
     bias_visualization_data |-> viz, articles_processed |-> arts,
     wordpress_post_id |-> post]

\* A faulty variant of _create_error_result: the error variant keeps no message.
CreateErrorResultNoMessage(error_message) ==
    MkResult(<<"Error">>, MkNeutral(<<>>, <<>>, <<>>, <<>>), <<>>, <<>>, <<>>, None)

\* NewsAgent._create_error_result
CreateErrorResult(error_message) ==
    MkResult(<<"Error">>, MkNeutral(error_message, <<>>, <<>>, <<>>), <<>>, <<>>, <<>>, None)

\* ------------------------------------------------------------ external calls
\* The outcome of a call to an external collaborator: the value it returns,
\* or the message of the exception it raises.
Returned(v) == [ok |-> TRUE, value |-> v]
Raised(msg) == [ok |-> FALSE, value |-> msg]

\* One entry of the log of external calls: the operation, its argument (a
\* str), the article blocks of its prompt (generator calls), and the outcome.
Call(op, arg, prompt, outcome) ==
    [op |-> op, arg |-> arg, prompt |-> prompt, ok |-> outcome.ok, value |-> outcome.value]

\* What the text generator may answer (LLMChain.arun), and how it may fail.
GenReplies == {<<" ", "Sammanfattning.", "\n">>}
GenOutcomes == {Returned(r) : r \in GenReplies} \cup {Raised(<<"generation error">>)}

\* What the key-facts chain may answer: a header line and bulleted lines.
\* The second reply has more lines than the cap of _extract_key_facts.
KeyFactsReplies ==
    {<<"Viktiga fakta", ":", "\n", "-", " ", "fakta 1", "\n", "\n", "*", " ", "fakta 2", " ">>,
     <<"-", "fakta 1", "\n", "-", "fakta 2", "\n", "-", "fakta 3", "\n", "-", "fakta 4", "\n",
       "-", "fakta 5", "\n", "-", "fakta 6", "\n", "-", "fakta 7">>}
KeyFactsOutcomes == {Returned(r) : r \in KeyFactsReplies} \cup {Raised(<<"generation error">>)}

\* ------------------------------------------------------------- LLMManager
\* A faulty variant of _group_articles_by_bias: an article with another label
\* is filed under Center.
GroupArticlesByBiasDefaultCenter(arts) ==
    [b \in Labels |->
        SelectSeq(arts, LAMBDA a : a.political_bias = b
                                   \/ (b = "Center" /\ a.political_bias \notin Labels))]

\* LLMManager._group_articles_by_bias: the three keys are always present and
\* each group keeps the input order.
GroupArticlesByBias(arts) ==
    [b \in Labels |-> SelectSeq(arts, LAMBDA a : a.political_bias = b)]

\* LLMManager._format_articles_for_prompt: the first 10 articles, one block
\* each.  The block is kept as the fields it prints.
FormatArticlesForPrompt(arts) ==
    [i \in 1..Min(Len(arts), PromptArticleLimit) |->
        [source_name |-> arts[i].source_name, political_bias |-> arts[i].political_bias,
         title |-> arts[i].title, url |-> arts[i].url]]

\* The sentinel of a label without articles (llm_manager.py:115).
NoCoverageText(bias) ==
    <<"Inga ", Lower(bias), "-orienterade kallor rapporterade om detta amne.">>

\* The sentinel of a label whose generator call failed (llm_manager.py:240).
CouldNotGenerateText(bias) ==
    <<"Kunde inte generera sammanfattning for ", bias, "-orienterade kallor.">>

\* A faulty variant of _generate_bias_summary: no handler, the failure goes on to
\* the caller.
GenerateBiasSummaryUnguarded(bias, outcome) ==
    IF outcome.ok THEN Returned(Strip(outcome.value)) ELSE outcome

\* A faulty variant of _generate_bias_summary: a failed call is reported with
\* the text of a label without articles.
GenerateBiasSummaryAsUncovered(bias, outcome) ==
    IF outcome.ok THEN Returned(Strip(outcome.value))
    ELSE Returned(NoCoverageText(bias))

\* LLMManager._generate_bias_summary, given the outcome of chain.arun: the
\* stripped text, or the sentinel when the call raised.  It never raises.
GenerateBiasSummary(bias, outcome) ==
    IF outcome.ok THEN Returned(Strip(outcome.value))
    ELSE Returned(CouldNotGenerateText(bias))

\* BiasSpecificSummary(political_bias, summary, article_count, sources)
MkBiasSummary(bias, summary, count, sources) ==
    [political_bias |-> bias, summary |-> summary,
     article_count |-> count, sources |-> sources]

\* A faulty variant of the loop body without the `if bias_articles:` guard: the
\* generator is asked for every label.
BiasSummaryForAlwaysGenerates(bias, bias_articles, outcome) ==
    MkBiasSummary(bias, GenerateBiasSummary(bias, outcome).value, Len(bias_articles),
                  [i \in 1..Len(bias_articles) |-> bias_articles[i].source_name])

\* A faulty variant of the loop body: the sources of the articles that fit the
\* prompt only.
BiasSummaryForPromptOnly(bias, bias_articles, outcome) ==
    LET shown == Take(bias_articles, PromptArticleLimit)
    IN  IF bias_articles # <<>>
        THEN MkBiasSummary(bias, GenerateBiasSummary(bias, outcome).value, Len(shown),
                           [i \in 1..Len(shown) |-> shown[i].source_name])
        ELSE MkBiasSummary(bias, NoCoverageText(bias), 0, <<>>)

\* The body of the loop of process_all_bias_summaries for one label
\* (llm_manager.py:99-118), given the outcome of the generator call made
\* when the label has articles.
BiasSummaryFor(bias, bias_articles, outcome) ==
    IF bias_articles # <<>>
    THEN MkBiasSummary(bias, GenerateBiasSummary(bias, outcome).value, Len(bias_articles),
                       [i \in 1..Len(bias_articles) |-> bias_articles[i].source_name])
    ELSE MkBiasSummary(bias, NoCoverageText(bias), 0, <<>>)

\* The labels process_all_bias_summaries calls the generator for, in order.
LabelsWithArticles(arts) ==
    SelectSeq(BiasOrder, LAMBDA b : GroupArticlesByBias(arts)[b] # <<>>)

\* A faulty variant of process_all_bias_summaries: labels without articles are
\* left out of the list.
ProcessAllBiasSummariesCoveredOnly(arts, outcomes) ==
    LET grouped == GroupArticlesByBias(arts)
        covered == SelectSeq(BiasOrder, LAMBDA b : grouped[b] # <<>>)
    IN  [i \in 1..Len(covered) |-> BiasSummaryFor(covered[i], grouped[covered[i]], outcomes[covered[i]])]

\* LLMManager.process_all_bias_summaries, given the outcome of each label's
\* generator call.  A failure that reaches the outer handler (a raising
\* _generate_bias_summary) empties the whole list (llm_manager.py:125-127).
ProcessAllBiasSummaries(arts, outcomes) ==
    LET grouped == GroupArticlesByBias(arts)
        escapes(b) == grouped[b] # <<>> /\ ~GenerateBiasSummary(b, outcomes[b]).ok
    IN  IF \E b \in Labels : escapes(b)
        THEN <<>>
        ELSE [i \in 1..Len(BiasOrder) |->
                BiasSummaryFor(BiasOrder[i], grouped[BiasOrder[i]], outcomes[BiasOrder[i]])]

\* ---------------------------------------------------------- retrieval store
\* The number of characters of a token: article bodies and stored texts are
\* long, every other token counts as one character.
CharCount(tok) ==
    CASE tok \in {"body1", "body3"} -> 1500
      [] tok \in {"body2", "body4"} -> 300
      [] tok = "history1" -> 950
      [] tok = "history2" -> 80
      [] OTHER -> 1

RECURSIVE StrLen(_)
StrLen(s) == IF s = <<>> THEN 0 ELSE CharCount(Head(s)) + StrLen(Tail(s))

\* A long str under slicing: its tokens and how many of its characters are
\* kept.  Whole(s) is s itself, SliceStr(x, n) is x[:n].
Whole(s) == [of |-> s, chars |-> StrLen(s)]
SliceStr(x, n) == [of |-> x.of, chars |-> Min(x.chars, n)]

\* VectorStoreEntry(id, content, metadata); embedding and created_at are
\* left out.
MkEntry(id, content, metadata) == [id |-> id, content |-> content, metadata |-> metadata]

\* Rows written before the run: one by add_article (its metadata has title
\* and url), one by another writer (its metadata has neither).
History1 ==
    MkEntry(<<"article_", "https://dn.se/", "h1", "history1">>, Whole(<<"history1">>),
            [title |-> <<"Tidigare artikel">>, url |-> <<"https://dn.se/", "h1">>])
History2 ==
    MkEntry(<<"legacy_", "h2">>, Whole(<<"history2">>), [source |-> <<"import">>])
History == {History1, History2}

\* A longer history: two more rows of the other writer, so that a search
\* can return more rows than the result keeps.
HistoryLong ==
    History \cup {MkEntry(<<"legacy_", "h3">>, Whole(<<"history2">>), [source |-> <<"import">>]),
                  MkEntry(<<"legacy_", "h4">>, Whole(<<"history1">>), [source |-> <<"import">>])}

\* SupabaseVectorStore._generate_content_id: "article_" and the hash of
\* f"{url}{content}".  The hash is taken to be injective on that string, so
\* the id is kept as the string itself.
GenerateContentId(content, url) == <<"article_">> \o url \o content

\* A faulty variant of the row of add_article: the id is taken from the title
\* and the text instead of the url and the text.
ArticleRowIdFromTitle(article) ==
    MkEntry(GenerateContentId(article.content, article.title),
            SliceStr(Whole(article.title \o <<"\n\n">> \o article.content),
                     StrLen(article.title) + 2 + EmbedChars),
            [title |-> article.title, url |-> article.url,
             source |-> <<article.source_name>>])

\* The row add_article builds (supabase_store.py:68-96).
ArticleRow(article) ==
    MkEntry(GenerateContentId(article.content, article.url),
            SliceStr(Whole(article.title \o <<"\n\n">> \o article.content),
                     StrLen(article.title) + 2 + EmbedChars),
            [title |-> article.title, url |-> article.url,
             source |-> <<article.source_name>>])

\* A faulty variant of the write: a plain insert, which keeps the row that
\* has the id already.
UpsertInsertOnly(rows, row) == rows \cup {row}

\* table.upsert(row): the row replaces the one with the same id.
Upsert(rows, row) == {r \in rows : r.id # row.id} \cup {row}

\* SupabaseVectorStore.add_article, given whether the upsert (or anything
\* before it) raises: the id and the table after it, or the exception,
\* which add_article lets through (supabase_store.py:103-105).
AddArticle(rows, article, fails) ==
    IF fails
    THEN [ok |-> FALSE, value |-> <<"upsert error">>, rows |-> rows]
    ELSE [ok |-> TRUE, value |-> ArticleRow(article).id, rows |-> Upsert(rows, ArticleRow(article))]

\* A faulty variant of the loop body of add_articles_batch: no handler in the
\* loop, so the first failing add ends the batch with its exception.
AddIterationAbort(rows, ids, arts, fails) ==
    LET added == AddArticle(rows, Head(arts), fails)
    IN  IF added.ok
        THEN [rows |-> added.rows, ids |-> Append(ids, added.value), rest |-> Tail(arts),
              raised |-> FALSE]
        ELSE [rows |-> added.rows, ids |-> ids, rest |-> <<>>, raised |-> TRUE]

\* One iteration of the loop of add_articles_batch (supabase_store.py:111-117)
\* over a non-empty rest of the batch: the id of the added article is
\* collected, or the add raised and the loop goes on.
AddIteration(rows, ids, arts, fails) ==
    LET added == AddArticle(rows, Head(arts), fails)
    IN  IF added.ok
        THEN [rows |-> added.rows, ids |-> Append(ids, added.value), rest |-> Tail(arts),
              raised |-> FALSE]
        ELSE [rows |-> added.rows, ids |-> ids, rest |-> Tail(arts), raised |-> FALSE]

\* A faulty variant of the loop body of process_rss_feeds: the item is
\* counted before its article is added.
RssIterationCountsFirst(rows, processed_count, arts, fails) ==
    LET added == AddArticle(rows, Head(arts), fails)
    IN  [rows |-> added.rows, processed_count |-> processed_count + 1, rest |-> Tail(arts)]

\* One iteration of the loop of process_rss_feeds (news_agent.py:267-293)
\* for an item whose article was extracted: the article is added and
\* counted, or the add raised and the loop goes on.
RssIteration(rows, processed_count, arts, fails) ==
    LET added == AddArticle(rows, Head(arts), fails)
    IN  [rows |-> added.rows,
         processed_count |-> IF added.ok THEN processed_count + 1 ELSE processed_count,
         rest |-> Tail(arts)]

\* The whole loop of add_articles_batch (supabase_store.py:111-117) over
\* add_article: `failing` are the urls whose add raises; the others are
\* upserted and their ids collected in input order.
RECURSIVE AddLoop(_, _, _, _)
AddLoop(rows, ids, arts, failing) ==
    IF arts = <<>> THEN [rows |-> rows, ids |-> ids]
    ELSE IF Head(arts).url \in failing
         THEN AddLoop(rows, ids, Tail(arts), failing)
         ELSE AddLoop(Upsert(rows, ArticleRow(Head(arts))),
                      Append(ids, ArticleRow(Head(arts)).id), Tail(arts), failing)

\* SupabaseVectorStore.add_articles_batch: the table after the batch and
\* the ids it returns.
AddArticlesBatch(rows, arts, failing) == AddLoop(rows, <<>>, arts, failing)

\* A faulty variant of _store_articles_in_vector_db: a batch that did not
\* store every article is passed on to the caller as a failure.
StoreArticlesInVectorDbStrict(rows, arts, failing) ==
    LET batch == AddArticlesBatch(rows, arts, failing)
    IN  [ok |-> Len(batch.ids) = Len(arts), value |-> <<"persistence error">>,
         rows |-> batch.rows]

\* NewsAgent._store_articles_in_vector_db: the table after the batch; it
\* returns nothing and never raises.
StoreArticlesInVectorDb(rows, arts, failing) ==
    [ok |-> TRUE, value |-> None, rows |-> AddArticlesBatch(rows, arts, failing).rows]

\* What the rpc match_news_articles may return for a table: rows of the
\* table, each at most once.
SearchRows(rows) == DistinctSeqs(rows, Cardinality(rows))
SearchOutcomes(rows) ==
    {Returned(r) : r \in SearchRows(rows)} \cup {Raised(<<"rpc error">>)}

\* The similarity of a row to a query, in hundredths: the cosine of the two
\* embeddings, which the database works out from the stored text.
Similarity(query, row) ==
    LET text == row.content.of[Len(row.content.of)]
    IN  CASE query = <<"val">> /\ text = "history1" -> 90
          [] query = <<"val">> /\ text = "history2" -> 72
          [] query = <<"val">> /\ text = "body1" -> 80
          [] query = <<"val">> /\ text = "body3" -> 72
          [] query = <<"sport">> /\ text = "history2" -> 85
          [] query = <<"sport">> /\ text = "body1" -> 70
          [] OTHER -> 40

\* The rows of a set by falling similarity (`ranked` are those placed).
RECURSIVE RankLoop(_, _, _)
RankLoop(ranked, rows, query) ==
    IF rows = {} THEN ranked
    ELSE LET best == CHOOSE r \in rows : \A o \in rows : Similarity(query, o) <= Similarity(query, r)
         IN  RankLoop(Append(ranked, best), rows \ {best}, query)

\* The database function match_news_articles: the rows at or above the
\* threshold, by falling similarity, at most match_count of them, each with
\* its similarity.
MatchNewsArticles(rows, query, match_threshold, match_count) ==
    LET ranked == RankLoop(<<>>, {r \in rows : Similarity(query, r) >= match_threshold}, query)
    IN  [i \in 1..Min(Len(ranked), match_count) |->
            [id |-> ranked[i].id, content |-> ranked[i].content,
             metadata |-> ranked[i].metadata, similarity |-> Similarity(query, ranked[i])]]

\* row.get('similarity', 0.0)
SimilarityOfRow(row) == IF "similarity" \in DOMAIN row THEN row.similarity ELSE 0

\* A faulty variant of similarity_search: the score is read under a key the
\* rows do not have, so every score is the default.
SimilaritySearchDefaultScore(outcome) ==
    IF outcome.ok
    THEN [i \in 1..Len(outcome.value) |->
            <<MkEntry(outcome.value[i].id, outcome.value[i].content, outcome.value[i].metadata), 0>>]
    ELSE <<>>

\* SupabaseVectorStore.similarity_search, given the outcome of the rpc: one
\* (entry, score) pair per row, in the order of the rows, or [] when
\* anything raised (supabase_store.py:163-165).
SimilaritySearch(outcome) ==
    IF outcome.ok
    THEN [i \in 1..Len(outcome.value) |->
            <<MkEntry(outcome.value[i].id, outcome.value[i].content, outcome.value[i].metadata),
              SimilarityOfRow(outcome.value[i])>>]
    ELSE <<>>

\* [entry for entry, score in related_entries] (news_agent.py:138)
EntriesOf(matches) == [i \in 1..Len(matches) |-> matches[i][1]]

\* A faulty variant of _retrieve_related_context: the failure goes on to the
\* caller.
RetrieveRelatedContextUnguarded(outcome) ==
    IF outcome.ok THEN Returned(EntriesOf(SimilaritySearch(outcome))) ELSE outcome

\* NewsAgent._retrieve_related_context: never raises.
RetrieveRelatedContext(outcome) == Returned(EntriesOf(SimilaritySearch(outcome)))

\* ------------------------------------------------------- neutral summary
\* LLMManager._format_context_for_prompt: the sentinel for no context, else
\* the first 5 entries, one block each (the block kept as the entry's id).
RECURSIVE ContextBlocks(_)
ContextBlocks(entries) ==
    IF entries = <<>> THEN <<>>
    ELSE <<"Kontext">> \o Head(entries).id \o ContextBlocks(Tail(entries))

FormatContextForPrompt(context_entries) ==
    IF context_entries = <<>>
    THEN <<"Ingen relevant historisk kontext hittades.">>
    ELSE ContextBlocks(Take(context_entries, PromptContextLimit))

\* str.split(sep): the pieces between the separators (`done` are the
\* finished pieces, `piece` the one being read).
RECURSIVE SplitLoop(_, _, _, _)
SplitLoop(done, piece, s, sep) ==
    IF s = <<>> THEN Append(done, piece)
    ELSE IF Head(s) = sep THEN SplitLoop(Append(done, piece), <<>>, Tail(s), sep)
    ELSE SplitLoop(done, Append(piece, Head(s)), Tail(s), sep)

Split(s, sep) == SplitLoop(<<>>, <<>>, s, sep)

\* str.lstrip(ch)
RECURSIVE LStripChar(_, _)
LStripChar(s, ch) == IF s # <<>> /\ Head(s) = ch THEN LStripChar(Tail(s), ch) ELSE s

\* The line filter and the clean-up of _extract_key_facts (llm_manager.py:285-289).
IsFactLine(line) == Strip(line) # <<>> /\ Head(Strip(line)) # "Viktiga fakta"
CleanFact(line) == Strip(LStripChar(LStripChar(LStripChar(Strip(line), "(bullet)"), "-"), "*"))

RECURSIVE CleanFacts(_)
CleanFacts(lines) ==
    IF lines = <<>> THEN <<>>
    ELSE IF IsFactLine(Head(lines)) THEN <<CleanFact(Head(lines))>> \o CleanFacts(Tail(lines))
    ELSE CleanFacts(Tail(lines))

\* A faulty variant of _extract_key_facts: every fact of the reply is kept.
ExtractKeyFactsUncapped(outcome) ==
    IF outcome.ok THEN CleanFacts(Split(outcome.value, "\n")) ELSE <<>>

\* LLMManager._extract_key_facts, given the outcome of key_facts_chain.arun:
\* at most 5 facts, [] when the call raised.
ExtractKeyFacts(outcome) ==
    IF outcome.ok THEN Take(CleanFacts(Split(outcome.value, "\n")), KeyFactsLimit) ELSE <<>>

\* The entries of related_context[:3] whose metadata has title and url.
RECURSIVE LinksOf(_)
LinksOf(entries) ==
    IF entries = <<>> THEN <<>>
    ELSE LET m == Head(entries).metadata
         IN  (IF {"title", "url"} \subseteq DOMAIN m
              THEN <<[title |-> m.title, url |-> m.url]>>
              ELSE <<>>) \o LinksOf(Tail(entries))

\* LLMManager._generate_internal_links: title/url dicts, no generator call.
GenerateInternalLinks(topic, related_context) == LinksOf(Take(related_context, LinkLimit))

\* entry.content[:200] + "..."
Snippet(entry) == [head |-> SliceStr(entry.content, SnippetChars), tail |-> "..."]

\* The validation of NeutralSummary's fields (news_models.py:81-84):
\* internal_links is List[HttpUrl], and a title/url dict is no url, so the
\* constructor accepts the links only when there are none.
NeutralSummaryValidates(summary, key_facts, related_context, internal_links) ==
    internal_links = <<>>

\* The except branch of generate_neutral_summary (llm_manager.py:176-183).
NeutralFallback(msg) ==
    MkNeutral(<<"Kunde inte generera neutral sammanfattning: ">> \o msg, <<>>, <<>>, <<>>)

\* LLMManager.generate_neutral_summary, given the outcomes of the summary
\* call and of the key-facts call (made only after the summary call
\* returned).  One try block covers the summary call and the constructor.
GenerateNeutralSummary(arts, related_context, topic, summary_outcome, facts_outcome) ==
    IF ~summary_outcome.ok THEN NeutralFallback(summary_outcome.value)
    ELSE LET key_facts == ExtractKeyFacts(facts_outcome)
             links == GenerateInternalLinks(topic, related_context)
             snippets == [i \in 1..Min(Len(related_context), SnippetLimit) |-> Snippet(related_context[i])]
             summary == Strip(summary_outcome.value)
         IN  IF NeutralSummaryValidates(summary, key_facts, snippets, links)
             THEN MkNeutral(summary, key_facts, snippets, links)
             ELSE NeutralFallback(<<"validation error for NeutralSummary">>)

\* ------------------------------------------------------------ visualization
\* The validation of BiasVisualizationData's fields (news_models.py:73-75):
\* source_name is a str, bias one of the three labels, url a url.
BiasVisualizationDataValidates(source_name, bias, url) ==
    source_name # Null /\ bias \in Labels

\* LLMManager.generate_bias_visualization_data: one entry per article, in
\* order; one try block covers the loop, so an article whose entry is
\* rejected empties the list (llm_manager.py:209-211).
GenerateBiasVisualizationData(arts) ==
    IF \A i \in 1..Len(arts) :
          BiasVisualizationDataValidates(arts[i].source_name, arts[i].political_bias, arts[i].url)
    THEN [i \in 1..Len(arts) |->
            [source_name |-> arts[i].source_name, bias |-> arts[i].political_bias, url |-> arts[i].url]]
    ELSE <<>>

\* ---------------------------------------------------------------- discovery
\* What the source provider may answer to find_articles_for_topic.
FindOutcomes == {Returned(r) : r \in FindResults} \cup {Raised(<<"provider error">>)}

\* What extract_article_content may return for the input url: None (it
\* catches its own failures), the article, or the article with a title that
\* differs from the copy found by the search.
ExtractResults == {None, Some(ArtL1), Some(ArtL1Refetched)}

\* The lookup of the url's domain in SWEDISH_NEWS_SOURCES (news_agent.py:108-115).
HasSourceInfo(url) == url[1] \in KnownDomains

\* Whether _discover_and_extract_articles calls extract_article_content.
ExtractsInputUrl(inp, find) == find.ok /\ Truthy(inp.topic_url) /\ HasSourceInfo(inp.topic_url[1])

\* NewsAgent._discover_and_extract_articles: the found list, with the article
\* of the input url appended when it is not in the list; [] when the
\* provider raised.
DiscoverAndExtractArticles(inp, find, extra) ==
    IF ~find.ok THEN <<>>
    ELSE IF ExtractsInputUrl(inp, find) /\ extra # None
            /\ \A i \in 1..Len(find.value) : find.value[i] # extra[1]
         THEN Append(find.value, extra[1])
         ELSE find.value

\* --------------------------------------------------------------- publisher
PostIds == {7}
PublishOutcomes ==
    {Returned(Some(id)) : id \in PostIds} \cup {Returned(None), Raised(<<"cms error">>)}

\* A faulty variant of _publish_to_wordpress: the failure goes on to the caller.
PublishToWordpressUnguarded(outcome) ==
    IF outcome.ok THEN Returned(outcome.value) ELSE outcome

\* A faulty variant of _publish_to_wordpress: a failed publication answers
\* with a placeholder id.
PublishToWordpressPlaceholderId(outcome) ==
    IF outcome.ok /\ outcome.value # None THEN Returned(outcome.value) ELSE Returned(Some(1))

\* NewsAgent._publish_to_wordpress, given the outcome of
\* publish_news_analysis: the post id, or None when the call raised.
PublishToWordpress(outcome) == IF outcome.ok THEN Returned(outcome.value) ELSE Returned(None)

\* ------------------------------------------------------------ the pipeline
VARIABLES
    pc,                       \* the step process_news_topic is at
    input,                    \* the ProcessingInput of the run
    wordpress_url,            \* whether settings.WORDPRESS_URL is set
    table_checked,            \* SupabaseVectorStore._table_checked
    store,                    \* the rows of the vector table
    articles,                 \* the local variables of process_news_topic
    related_context,
    bias_summaries,
    neutral_summary,
    bias_visualization_data,
    result,                   \* what process_news_topic returned, when done
    raised,                   \* the exception it let through, when done
    log,                      \* the external calls of the run, in order
    writers,                  \* the other writers to the store: each one's loop over its batch
    searched,                 \* the similarity searches made on the store directly
    called                    \* a method called on its own: its arguments and what it returned

vars == <<pc, input, wordpress_url, table_checked, store, articles, related_context,
          bias_summaries, neutral_summary, bias_visualization_data, result, raised, log,
          writers, searched, called>>

\* What a run of process_news_topic does not touch.
others == <<writers, searched, called>>

\* The search query of a run whose input has one.
Query == GetSearchQuery(input).value

\* A faulty variant of the outer handler: the exception leaves process_news_topic.
ProcessNewsTopicNoExcept(msg) == [result |-> None, raised |-> Some(msg)]

\* The except branch of process_news_topic (news_agent.py:91-93).
ProcessNewsTopicExcept(msg) ==
    [result |-> Some(CreateErrorResult(<<"Processing error: ">> \o msg)), raised |-> None]

\* A faulty variant of the order of the steps: the articles are stored right
\* after discovery, before the context is retrieved.
StepAfterStoreFirst(step) ==
    CASE step = "start" -> "discover"
      [] step = "discover" -> "store"
      [] step = "store" -> "context"
      [] step = "context" -> "bias"
      [] step = "bias" -> "neutral"
      [] step = "neutral" -> "viz"
      [] step = "viz" -> "publish"

\* The order of the steps of process_news_topic (news_agent.py:45-84):
\* the step that follows one that went through.
StepAfter(step) ==
    CASE step = "start" -> "discover"
      [] step = "discover" -> "context"
      [] step = "context" -> "bias"
      [] step = "bias" -> "neutral"
      [] step = "neutral" -> "viz"
      [] step = "viz" -> "store"
      [] step = "store" -> "publish"

\* The run ends in the outer handler.
Fails(msg) ==
    /\ result' = ProcessNewsTopicExcept(msg).result
    /\ raised' = ProcessNewsTopicExcept(msg).raised
    /\ pc' = "done"

Init ==
    /\ pc = "start"
    /\ input \in Inputs
    /\ wordpress_url \in BOOLEAN
    /\ table_checked = FALSE
    /\ store = History
    /\ articles = <<>>
    /\ related_context = <<>>
    /\ bias_summaries = <<>>
    /\ neutral_summary = MkNeutral(<<>>, <<>>, <<>>, <<>>)
    /\ bias_visualization_data = <<>>
    /\ result = None
    /\ raised = None
    /\ log = <<>>
    /\ writers = <<>>
    /\ searched = <<>>
    /\ called = None

\* news_agent.py:44-45: the first get_search_query raises on an empty input.
Start ==
    /\ pc = "start"
    /\ UNCHANGED others
    /\ IF GetSearchQuery(input).ok
       THEN pc' = StepAfter("start") /\ UNCHANGED <<result, raised>>
       ELSE Fails(GetSearchQuery(input).value)
    /\ UNCHANGED <<input, wordpress_url, table_checked, store, articles, related_context,
                   bias_summaries, neutral_summary, bias_visualization_data, log>>

\* A faulty variant of step 1: a run without articles goes on to the next
\* step.
DiscoverNoShortCircuit ==
    /\ pc = "discover"
    /\ UNCHANGED others
    /\ \E find \in FindOutcomes, extra \in ExtractResults :
        /\ articles' = DiscoverAndExtractArticles(input, find, extra)
        /\ log' = log \o <<Call("find", Query, <<>>, find)>>
                      \o (IF ExtractsInputUrl(input, find)
                          THEN <<Call("extract", input.topic_url[1], <<>>, Returned(extra))>>
                          ELSE <<>>)
    /\ pc' = StepAfter("discover")
    /\ UNCHANGED <<input, wordpress_url, table_checked, store, related_context,
                   bias_summaries, neutral_summary, bias_visualization_data, result, raised>>

\* Step 1 (news_agent.py:47-52): discovery; no article ends the run in the
\* error variant.
Discover ==
    /\ pc = "discover"
    /\ UNCHANGED others
    /\ \E find \in FindOutcomes, extra \in ExtractResults :
        /\ articles' = DiscoverAndExtractArticles(input, find, extra)
        /\ log' = log \o <<Call("find", Query, <<>>, find)>>
                      \o (IF ExtractsInputUrl(input, find)
                          THEN <<Call("extract", input.topic_url[1], <<>>, Returned(extra))>>
                          ELSE <<>>)
    /\ IF articles' = <<>>
       THEN /\ result' = Some(CreateErrorResult(<<"No articles found for the given topic">>))
            /\ pc' = "done"
       ELSE /\ pc' = StepAfter("discover")
            /\ UNCHANGED result
    /\ UNCHANGED <<input, wordpress_url, table_checked, store, related_context,
                   bias_summaries, neutral_summary, bias_visualization_data, raised>>

\* Step 2 (news_agent.py:56-57): context retrieval.
RetrieveContext ==
    /\ pc = "context"
    /\ UNCHANGED others
    /\ \E outcome \in SearchOutcomes(store) :
        /\ log' = Append(log, Call("search", Query, <<>>, outcome))
        /\ IF RetrieveRelatedContext(outcome).ok
           THEN /\ related_context' = RetrieveRelatedContext(outcome).value
                /\ pc' = StepAfter("context")
                /\ UNCHANGED <<result, raised>>
           ELSE /\ Fails(RetrieveRelatedContext(outcome).value)
                /\ UNCHANGED related_context
    /\ table_checked' = TRUE
    /\ UNCHANGED <<input, wordpress_url, store, articles,
                   bias_summaries, neutral_summary, bias_visualization_data>>

\* The generator calls of process_all_bias_summaries, in order.
BiasCalls(arts, outcomes) ==
    LET covered == LabelsWithArticles(arts)
    IN  [i \in 1..Len(covered) |->
            Call("bias_summary", <<covered[i]>>,
                 FormatArticlesForPrompt(GroupArticlesByBias(arts)[covered[i]]),
                 outcomes[covered[i]])]

\* Step 3 (news_agent.py:59-60): the per-label summaries.
GenerateBiasSummaries ==
    /\ pc = "bias"
    /\ UNCHANGED others
    /\ \E outcomes \in [Labels -> GenOutcomes] :
        /\ bias_summaries' = ProcessAllBiasSummaries(articles, outcomes)
        /\ log' = log \o BiasCalls(articles, outcomes)
    /\ pc' = StepAfter("bias")
    /\ UNCHANGED <<input, wordpress_url, table_checked, store, articles, related_context,
                   neutral_summary, bias_visualization_data, result, raised>>

\* A faulty variant of the generator calls of generate_neutral_summary: the
\* two calls are issued together, the key-facts call without the summary.
NeutralCallsFactsFirst(arts, context, summary_outcome, facts_outcome) ==
    <<Call("key_facts", <<>>, FormatArticlesForPrompt(arts), facts_outcome),
      Call("neutral_summary", FormatContextForPrompt(context),
           FormatArticlesForPrompt(arts), summary_outcome)>>

\* The generator calls of generate_neutral_summary, in order
\* (llm_manager.py:154-161, 279-282): the summary call, and when it
\* returned, the key-facts call with the text it returned.
NeutralCalls(arts, context, summary_outcome, facts_outcome) ==
    <<Call("neutral_summary", FormatContextForPrompt(context),
           FormatArticlesForPrompt(arts), summary_outcome)>>
    \o (IF summary_outcome.ok
        THEN <<Call("key_facts", summary_outcome.value, FormatArticlesForPrompt(arts), facts_outcome)>>
        ELSE <<>>)

\* Step 4 (news_agent.py:62-65): the neutral summary; the key-facts call is
\* made with the text the summary call returned.
GenerateNeutral ==
    /\ pc = "neutral"
    /\ UNCHANGED others
    /\ \E summary_outcome \in GenOutcomes, facts_outcome \in KeyFactsOutcomes :
        /\ neutral_summary' = GenerateNeutralSummary(articles, related_context, Query,
                                                     summary_outcome, facts_outcome)
        /\ log' = log \o NeutralCalls(articles, related_context, summary_outcome, facts_outcome)
    /\ pc' = StepAfter("neutral")
    /\ UNCHANGED <<input, wordpress_url, table_checked, store, articles, related_context,
                   bias_summaries, bias_visualization_data, result, raised>>

\* Step 5 (news_agent.py:67-68): the visualization entries.
GenerateVisualization ==
    /\ pc = "viz"
    /\ UNCHANGED others
    /\ bias_visualization_data' = GenerateBiasVisualizationData(articles)
    /\ pc' = StepAfter("viz")
    /\ UNCHANGED <<input, wordpress_url, table_checked, store, articles, related_context,
                   bias_summaries, neutral_summary, result, raised, log>>

\* The urls whose add may fail.
FailableUrls ==
    {a.url : a \in ArticlePool} \cup {LongList[1].url, LongList[Len(LongList)].url}

\* A faulty variant of the add_article calls of a batch: an add that raised
\* is tried once more.
RECURSIVE AddCallsRetrying(_, _)
AddCallsRetrying(arts, failing) ==
    IF arts = <<>> THEN <<>>
    ELSE (IF Head(arts).url \in failing
          THEN <<Call("add", Head(arts).url, <<>>, Raised(<<"upsert error">>)),
                 Call("add", Head(arts).url, <<>>, Raised(<<"upsert error">>))>>
          ELSE <<Call("add", Head(arts).url, <<>>, Returned(ArticleRow(Head(arts)).id))>>)
         \o AddCallsRetrying(Tail(arts), failing)

\* The add_article calls of a batch, in order.
AddCalls(arts, failing) ==
    [i \in 1..Len(arts) |->
        Call("add", arts[i].url, <<>>,
             IF arts[i].url \in failing THEN Raised(<<"upsert error">>)
             ELSE Returned(ArticleRow(arts[i]).id))]

\* Step 6 (news_agent.py:70-71): persistence.
StoreArticles ==
    /\ pc = "store"
    /\ UNCHANGED others
    /\ \E failing \in SUBSET (FailableUrls \cap {articles[i].url : i \in 1..Len(articles)}) :
        LET stored == StoreArticlesInVectorDb(store, articles, failing)
        IN  /\ store' = stored.rows
            /\ log' = log \o AddCalls(articles, failing)
            /\ IF stored.ok
               THEN pc' = StepAfter("store") /\ UNCHANGED <<result, raised>>
               ELSE Fails(stored.value)
    /\ table_checked' = TRUE
    /\ UNCHANGED <<input, wordpress_url, articles, related_context, bias_summaries,
                   neutral_summary, bias_visualization_data>>

\* if wordpress_post_id: (news_agent.py:85)
TruthyId(post) == post # None /\ post[1] # 0

\* Steps 7 and 8 (news_agent.py:73-89): the result is built, published when
\* a WordPress url is configured, and returned.
Publish ==
    /\ pc = "publish"
    /\ UNCHANGED others
    /\ \E outcome \in PublishOutcomes :
        LET built == MkResult(Query, neutral_summary, bias_summaries,
                              bias_visualization_data, articles, None)
            post == PublishToWordpress(outcome)
        IN  IF ~wordpress_url
            THEN /\ result' = Some(built)
                 /\ pc' = "done"
                 /\ UNCHANGED <<raised, log>>
            ELSE /\ log' = Append(log, Call("publish", Query, <<>>, outcome))
                 /\ IF post.ok
                    THEN /\ result' = Some(IF TruthyId(post.value)
                                           THEN [built EXCEPT !.wordpress_post_id = post.value]
                                           ELSE built)
                         /\ pc' = "done"
                         /\ UNCHANGED raised
                    ELSE Fails(post.value)
    /\ UNCHANGED <<input, wordpress_url, table_checked, store, articles, related_context,
                   bias_summaries, neutral_summary, bias_visualization_data>>

Next ==
    \/ Start
    \/ Discover
    \/ RetrieveContext
    \/ GenerateBiasSummaries
    \/ GenerateNeutral
    \/ GenerateVisualization
    \/ StoreArticles
    \/ Publish

Spec == Init /\ [][Next]_vars

\* ------------------------------------------------ a run on a longer history
\* One run of process_news_topic on a table that holds more rows than the
\* neutral summary keeps snippets and links of.
LongHistoryInit ==
    /\ pc = "start"
    /\ input = MkInput(Some(<<"Val 2024">>), None, None)
    /\ wordpress_url = FALSE
    /\ table_checked = FALSE
    /\ store = HistoryLong
    /\ articles = <<>>
    /\ related_context = <<>>
    /\ bias_summaries = <<>>
    /\ neutral_summary = MkNeutral(<<>>, <<>>, <<>>, <<>>)
    /\ bias_visualization_data = <<>>
    /\ result = None
    /\ raised = None
    /\ log = <<>>
    /\ writers = <<>>
    /\ searched = <<>>
    /\ called = None

LongHistorySpec == LongHistoryInit /\ [][Next]_vars

\* ------------------------------------------- several writers to one store
\* Two runs of process_news_topic, each at its add_articles_batch, and one
\* run of process_rss_feeds write to the same table, typically from
\* different processes: their upserts reach the database one at a time, in
\* any order.
BatchWriters == {"run1", "run2"}
Writers == BatchWriters \cup {"rss"}

\* The longest batch of the first run.
MaxBatch == 2

\* The articles the writers ingest: one page fetched twice, and another.
StorePool == {ArtL1, ArtL1Refetched, ArtC}

\* Sequences over S of length at most n.
RECURSIVE SeqsUpTo(_, _)
SeqsUpTo(S, n) ==
    IF n = 0 THEN {<<>>}
    ELSE {<<>>} \cup {<<x>> \o t : x \in S, t \in SeqsUpTo(S, n - 1)}

\* The batches of the three writers.
Batches(w) ==
    CASE w = "run1" -> SeqsUpTo(StorePool, MaxBatch) \ {<<>>}
      [] w = "run2" -> {<<ArtL1>>, <<ArtC, ArtL1Refetched>>}
      [] w = "rss" -> {<<>>, <<ArtL1Refetched>>, <<ArtC>>}

\* A writer at the start of its loop: article_ids and processed_count are
\* the loop's variables, `adds` keeps what each add_article call did.
MkWriter(batch) ==
    [batch |-> batch, rest |-> batch, article_ids |-> <<>>, processed_count |-> 0,
     raised |-> FALSE, adds |-> <<>>]

\* No run of process_news_topic is under way in this process.
NoRun ==
    /\ pc = "idle"
    /\ input = MkInput(None, None, None)
    /\ wordpress_url = FALSE
    /\ articles = <<>>
    /\ related_context = <<>>
    /\ bias_summaries = <<>>
    /\ neutral_summary = MkNeutral(<<>>, <<>>, <<>>, <<>>)
    /\ bias_visualization_data = <<>>
    /\ result = None
    /\ raised = None
    /\ log = <<>>

run_vars == <<pc, input, wordpress_url, articles, related_context, bias_summaries,
              neutral_summary, bias_visualization_data, result, raised, log>>

StoreInit ==
    /\ NoRun
    /\ table_checked = FALSE
    /\ store = History
    /\ writers \in {[w \in Writers |-> MkWriter(b[w])] : b \in [Writers -> UNION {Batches(w) : w \in Writers}]}
    /\ \A w \in Writers : writers[w].batch \in Batches(w)
    /\ searched = <<>>
    /\ called = None

\* Whether an article with this url and text has been added already, by any
\* writer.
AlreadyAdded(article) ==
    \E w \in DOMAIN writers : \E k \in 1..Len(writers[w].adds) :
        /\ writers[w].adds[k].ok
        /\ writers[w].batch[writers[w].adds[k].pos].url = article.url
        /\ writers[w].batch[writers[w].adds[k].pos].content = article.content

\* What one add_article call of a writer did: the position of the article
\* in the batch, the outcome, the size of the table before and after, and
\* whether the article had been added before.
AddRecord(wr, added, rows) ==
    [pos |-> Len(wr.batch) - Len(wr.rest) + 1, ok |-> added.ok, value |-> added.value,
     before |-> Cardinality(rows), after |-> Cardinality(added.rows),
     again |-> AlreadyAdded(Head(wr.rest))]

\* One iteration of the loop of add_articles_batch in a run.
BatchAdd(w) ==
    /\ writers[w].rest # <<>>
    /\ \E fails \in BOOLEAN :
        LET wr == writers[w]
            it == AddIteration(store, wr.article_ids, wr.rest, fails)
        IN  /\ store' = it.rows
            /\ writers' = [writers EXCEPT ![w] =
                              [wr EXCEPT !.rest = it.rest, !.article_ids = it.ids,
                                         !.raised = it.raised,
                                         !.adds = Append(@, AddRecord(wr, AddArticle(store, Head(wr.rest), fails), store))]]
    /\ table_checked' = TRUE
    /\ UNCHANGED <<run_vars, searched, called>>

\* One iteration of the loop of process_rss_feeds.
RssAdd ==
    /\ writers["rss"].rest # <<>>
    /\ \E fails \in BOOLEAN :
        LET wr == writers["rss"]
            it == RssIteration(store, wr.processed_count, wr.rest, fails)
        IN  /\ store' = it.rows
            /\ writers' = [writers EXCEPT !["rss"] =
                              [wr EXCEPT !.rest = it.rest, !.processed_count = it.processed_count,
                                         !.adds = Append(@, AddRecord(wr, AddArticle(store, Head(wr.rest), fails), store))]]
    /\ table_checked' = TRUE
    /\ UNCHANGED <<run_vars, searched, called>>

StoreNext ==
    \/ \E w \in BatchWriters : BatchAdd(w)
    \/ RssAdd

StoreSpec == StoreInit /\ [][StoreNext]_vars

\* ------------------------------------------------- searches on the store
\* similarity_search called on the table while a run adds its batch to it.
MaxSearches == 2

\* The queries, limits and thresholds (in hundredths) of the searches.
Queries == {<<"val">>, <<"sport">>}
Limits == {1, 5}
Thresholds == {70, 80}

\* What the rpc may do for a search: answer as the database function does,
\* or raise.
RpcOutcomes(rows, query, threshold, limit) ==
    {Returned(MatchNewsArticles(rows, query, threshold, limit)), Raised(<<"rpc error">>)}

SearchInit ==
    /\ NoRun
    /\ table_checked = FALSE
    /\ store = History
    /\ writers \in {[w \in {"run1"} |-> MkWriter(b)] : b \in {<<ArtL1, ArtC>>, <<ArtC, ArtL1Refetched>>}}
    /\ searched = <<>>
    /\ called = None

\* One call of similarity_search (supabase_store.py:122-165): what it was
\* asked, the table it was asked on, and the matches it returned.
Search ==
    /\ Len(searched) < MaxSearches
    /\ \E query \in Queries, limit \in Limits, threshold \in Thresholds :
        \E outcome \in RpcOutcomes(store, query, threshold, limit) :
            searched' = Append(searched,
                               [query |-> query, limit |-> limit, threshold |-> threshold,
                                table |-> store, answered |-> outcome.ok,
                                matches |-> SimilaritySearch(outcome)])
    /\ table_checked' = TRUE
    /\ UNCHANGED <<run_vars, store, writers, called>>

SearchNext ==
    \/ BatchAdd("run1")
    \/ Search

SearchSpec == SearchInit /\ [][SearchNext]_vars

\* ------------------------------------------------ methods called directly
\* The longest article list a method is called with.
MaxListLen == 3

\* The articles of these lists, and the lists: any order, with repetition.
UnitPool == {ArtL1, ArtC, ArtR, ArtOther, ArtNoName}
UnitLists == SeqsUpTo(UnitPool, MaxListLen)

UnitInit ==
    /\ NoRun
    /\ table_checked = FALSE
    /\ store = History
    /\ writers = <<>>
    /\ searched = <<>>
    /\ called = None

\* llm_manager._group_articles_by_bias(articles)
CallGroupArticlesByBias ==
    /\ called = None
    /\ \E arts \in UnitLists :
        called' = Some([method |-> "_group_articles_by_bias", articles |-> arts,
                        returned |-> GroupArticlesByBias(arts)])
    /\ UNCHANGED <<run_vars, table_checked, store, writers, searched>>

\* await llm_manager.generate_bias_visualization_data(articles)
CallGenerateBiasVisualizationData ==
    /\ called = None
    /\ \E arts \in UnitLists :
        called' = Some([method |-> "generate_bias_visualization_data", articles |-> arts,
                        returned |-> GenerateBiasVisualizationData(arts)])
    /\ UNCHANGED <<run_vars, table_checked, store, writers, searched>>

\* The batches add_articles_batch is called with.
IdPool == {ArtL1, ArtL1Refetched, ArtShiftA, ArtShiftB}

\* await vector_store.add_articles_batch(articles), every add going through
CallAddArticlesBatch ==
    /\ called = None
    /\ \E arts \in SeqsUpTo(IdPool, MaxBatch) :
        /\ store' = AddArticlesBatch(store, arts, {}).rows
        /\ called' = Some([method |-> "add_articles_batch", articles |-> arts,
                           returned |-> AddArticlesBatch(store, arts, {}).ids])
    /\ table_checked' = TRUE
    /\ UNCHANGED <<run_vars, writers, searched>>

UnitNext ==
    \/ CallGroupArticlesByBias
    \/ CallGenerateBiasVisualizationData
    \/ CallAddArticlesBatch

UnitSpec == UnitInit /\ [][UnitNext]_vars

\* ------------------------------------------------- the ingestion of feeds
\* One run of process_rss_feeds.  A feed item is kept as its link.
\* for item in recent_items[:10]
RssItemLimit == 10

\* The longest feed (besides the one that exceeds the item limit).
MaxFeed == 2

\* What get_recent_rss_articles may return: short feeds over two pages of
\* known sources and one of an unknown domain, and the links of LongList,
\* one more than the item limit.
FeedOutcomes ==
    {Returned(f) : f \in SeqsUpTo({ArtL1.url, ArtC.url, UnknownUrl}, MaxFeed)
                          \cup {[i \in 1..Len(LongList) |-> LongList[i].url]}}
        \cup {Raised(<<"feed error">>)}

\* The article extract_article_content builds from the page at a link.
PageAt(link) ==
    CHOOSE a \in ArticlePool \cup {LongList[i] : i \in 1..Len(LongList)} : a.url = link

\* news_agent.py:253-265: the recent items are fetched; without items, or
\* when the fetch raised, the run returns at once.
RssFetch ==
    /\ called = None
    /\ writers = <<>>
    /\ \E feed \in FeedOutcomes :
        /\ log' = Append(log, Call("rss", <<>>, <<>>, feed))
        /\ IF ~feed.ok
           THEN /\ called' = Some([method |-> "process_rss_feeds",
                                   returned |-> [status |-> "error", error |-> feed.value]])
                /\ UNCHANGED writers
           ELSE IF feed.value = <<>>
           THEN /\ called' = Some([method |-> "process_rss_feeds",
                                   returned |-> [status |-> "success", items_processed |-> 0]])
                /\ UNCHANGED writers
           ELSE /\ writers' = [w \in {"rss"} |->
                                  [MkWriter(feed.value) EXCEPT !.rest = Take(feed.value, RssItemLimit)]]
                /\ UNCHANGED called
    /\ UNCHANGED <<pc, input, wordpress_url, articles, related_context, bias_summaries,
                   neutral_summary, bias_visualization_data, result, raised,
                   table_checked, store, searched>>

\* news_agent.py:267-293: one item of the loop.  An item of an unknown
\* source is passed over; else the page is extracted (None when extraction
\* failed) and the article added and counted; an add that raises is
\* logged and the loop goes on.
RssItem ==
    /\ called = None
    /\ "rss" \in DOMAIN writers
    /\ writers["rss"].rest # <<>>
    /\ LET wr == writers["rss"]
           link == Head(wr.rest)
       IN  IF ~HasSourceInfo(link)
           THEN /\ writers' = [writers EXCEPT !["rss"].rest = Tail(wr.rest)]
                /\ UNCHANGED <<log, store, table_checked>>
           ELSE \E extracted \in {None, Some(PageAt(link))},
                   fails \in (IF link \in FailableUrls THEN BOOLEAN ELSE {FALSE}) :
                    IF extracted = None
                    THEN /\ writers' = [writers EXCEPT !["rss"].rest = Tail(wr.rest)]
                         /\ log' = Append(log, Call("extract", link, <<>>, Returned(extracted)))
                         /\ UNCHANGED <<store, table_checked>>
                    ELSE LET it == RssIteration(store, wr.processed_count, extracted, fails)
                             added == AddArticle(store, extracted[1], fails)
                         IN  /\ writers' = [writers EXCEPT !["rss"].rest = Tail(wr.rest),
                                                           !["rss"].processed_count = it.processed_count]
                             /\ store' = it.rows
                             /\ table_checked' = TRUE
                             /\ log' = log \o <<Call("extract", link, <<>>, Returned(extracted)),
                                                Call("add", link, <<>>, [ok |-> added.ok, value |-> added.value])>>
    /\ UNCHANGED <<pc, input, wordpress_url, articles, related_context, bias_summaries,
                   neutral_summary, bias_visualization_data, result, raised, searched, called>>

\* news_agent.py:295-300: the loop is over, the counts are returned.
RssReturn ==
    /\ called = None
    /\ "rss" \in DOMAIN writers
    /\ writers["rss"].rest = <<>>
    /\ called' = Some([method |-> "process_rss_feeds",
                       returned |-> [status |-> "success",
                                     items_found |-> Len(writers["rss"].batch),
                                     items_processed |-> writers["rss"].processed_count]])
    /\ UNCHANGED <<run_vars, table_checked, store, writers, searched>>

RssNext ==
    \/ RssFetch
    \/ RssItem
    \/ RssReturn

RssSpec == UnitInit /\ [][RssNext]_vars

\* --------------------------------------------------------- the HTTP handler
\* handler(request, context) of api/process_news_topic.py, called by the
\* platform once per request.  A request is its method and what json.loads
\* makes of its body: nothing (the text is no JSON), a value that is not an
\* object, or an object, of which the three topic fields are kept (None for
\* a field that is absent or null, else its string).
MkRequest(method, kind, title, url, description) ==
    [method |-> method, kind |-> kind,
     topic_title |-> title, topic_url |-> url, topic_description |-> description]

Requests ==
    { MkRequest("OPTIONS", "invalid", None, None, None),
      MkRequest("GET", "object", Some(<<"Val 2024">>), None, None),
      MkRequest("POST", "invalid", None, None, None),
      MkRequest("POST", "array", None, None, None),
      MkRequest("POST", "object", None, None, None),
      MkRequest("POST", "object", Some(<<>>), Some(<<>>), Some(<<>>)),
      MkRequest("POST", "object", Some(<<"Val 2024">>), None, Some(<<>>)),
      MkRequest("POST", "object", Some(<<>>), Some(KnownUrl), None),
      MkRequest("POST", "object", Some(<<"Val 2024">>), Some(<<>>), None),
      MkRequest("POST", "object", None, Some(<<"inte en url">>), None) }

\* The response: the status code, and of the JSON body the status, the
\* message and the data (Null and None for what the body does not have).
MkResponse(code, status, message, data) ==
    [statusCode |-> code, status |-> status, message |-> message, data |-> data]

\* Whether Optional[HttpUrl] accepts a field of the body (news_models.py:46).
HttpUrlValidates(field) ==
    field = None \/ (field[1] # <<>> /\ field[1][1] \in KnownDomains \cup {"https://example.org/"})

\* A faulty variant of the handler before the call: the check that some field
\* is set is left out.
HandlerAdmitUnvalidated(request) ==
    IF request.method = "OPTIONS" THEN Raised(MkResponse(200, Null, <<>>, None))
    ELSE IF request.method # "POST"
    THEN Raised(MkResponse(405, "error", <<"Method not allowed. Use POST.">>, None))
    ELSE IF request.kind = "invalid"
    THEN Raised(MkResponse(400, "error", <<"Invalid JSON in request body">>, None))
    ELSE IF request.kind # "object"
    THEN Raised(MkResponse(500, "error", <<"Internal server error: ", "no attribute 'get'">>, None))
    ELSE IF ~HttpUrlValidates(request.topic_url)
    THEN Raised(MkResponse(500, "error", <<"Internal server error: ", "validation error for ProcessingInput">>, None))
    ELSE Returned(MkInput(request.topic_title, request.topic_url, request.topic_description))

\* A faulty variant of the handler before the call: a url that is no url is
\* passed on as it is.
HandlerAdmitAnyUrl(request) ==
    IF request.method = "OPTIONS" THEN Raised(MkResponse(200, Null, <<>>, None))
    ELSE IF request.method # "POST"
    THEN Raised(MkResponse(405, "error", <<"Method not allowed. Use POST.">>, None))
    ELSE IF request.kind = "invalid"
    THEN Raised(MkResponse(400, "error", <<"Invalid JSON in request body">>, None))
    ELSE IF request.kind # "object"
    THEN Raised(MkResponse(500, "error", <<"Internal server error: ", "no attribute 'get'">>, None))
    ELSE IF ~(Truthy(request.topic_title) \/ Truthy(request.topic_url) \/ Truthy(request.topic_description))
    THEN Raised(MkResponse(400, "error",
                           <<"At least one of topic_title, topic_url, or topic_description is required">>, None))
    ELSE Returned(MkInput(request.topic_title, request.topic_url, request.topic_description))

\* The handler up to the call of process_news_topic (lines 53-115): the
\* ProcessingInput it calls the pipeline with, or the response it returns
\* without calling it.  body.get on a value that is no object and a field
\* ProcessingInput rejects raise into the outer handler (lines 132-141).
HandlerAdmit(request) ==
    IF request.method = "OPTIONS" THEN Raised(MkResponse(200, Null, <<>>, None))
    ELSE IF request.method # "POST"
    THEN Raised(MkResponse(405, "error", <<"Method not allowed. Use POST.">>, None))
    ELSE IF request.kind = "invalid"
    THEN Raised(MkResponse(400, "error", <<"Invalid JSON in request body">>, None))
    ELSE IF request.kind # "object"
    THEN Raised(MkResponse(500, "error", <<"Internal server error: ", "no attribute 'get'">>, None))
    ELSE IF ~(Truthy(request.topic_title) \/ Truthy(request.topic_url) \/ Truthy(request.topic_description))
    THEN Raised(MkResponse(400, "error",
                           <<"At least one of topic_title, topic_url, or topic_description is required">>, None))
    ELSE IF ~HttpUrlValidates(request.topic_url)
    THEN Raised(MkResponse(500, "error", <<"Internal server error: ", "validation error for ProcessingInput">>, None))
    ELSE Returned(MkInput(request.topic_title, request.topic_url, request.topic_description))

\* The handler after the call (lines 118-141): the result as data, or the
\* exception the call let through as an internal error.
HandlerReturn(returned, exception) ==
    IF exception # None
    THEN MkResponse(500, "error", <<"Internal server error: ">> \o exception[1], None)
    ELSE MkResponse(200, "success", <<>>, returned)

HandlerInit ==
    /\ pc = "idle"
    /\ input = MkInput(None, None, None)
    /\ wordpress_url \in BOOLEAN
    /\ table_checked = FALSE
    /\ store = History
    /\ articles = <<>>
    /\ related_context = <<>>
    /\ bias_summaries = <<>>
    /\ neutral_summary = MkNeutral(<<>>, <<>>, <<>>, <<>>)
    /\ bias_visualization_data = <<>>
    /\ result = None
    /\ raised = None
    /\ log = <<>>
    /\ writers = <<>>
    /\ searched = <<>>
    /\ called = None

\* The handler receives a request: it answers at once, or calls
\* process_news_topic (`invoked` counts the calls).
HandlerReceive ==
    /\ pc = "idle"
    /\ called = None
    /\ \E request \in Requests :
        LET admitted == HandlerAdmit(request)
        IN  IF admitted.ok
            THEN /\ input' = admitted.value
                 /\ pc' = "start"
                 /\ called' = Some([method |-> "handler", request |-> request, invoked |-> 1,
                                    returned |-> None])
            ELSE /\ called' = Some([method |-> "handler", request |-> request, invoked |-> 0,
                                    returned |-> Some(admitted.value)])
                 /\ UNCHANGED <<pc, input>>
    /\ UNCHANGED <<wordpress_url, table_checked, store, articles, related_context, bias_summaries,
                   neutral_summary, bias_visualization_data, result, raised, log, writers, searched>>

\* process_news_topic has returned: the handler answers.
HandlerRespond ==
    /\ pc = "done"
    /\ called # None
    /\ called[1].returned = None
    /\ called' = Some([called[1] EXCEPT !.returned = Some(HandlerReturn(result, raised))])
    /\ UNCHANGED <<run_vars, table_checked, store, writers, searched>>

HandlerNext ==
    \/ HandlerReceive
    \/ Next
    \/ HandlerRespond

HandlerSpec == HandlerInit /\ [][HandlerNext]_vars

\* =================================================================== claims
\* The result of a finished run.
Done == pc = "done"
Res == result[1]

\* The calls of one operation in the log, in order.
CallsOf(op) == SelectSeq(log, LAMBDA c : c.op = op)
FailedCalls(op) == SelectSeq(log, LAMBDA c : c.op = op /\ ~c.ok)

\* The run got past discovery with at least one article.
Discovered == Done /\ articles # <<>>

\* The positions of the discovered articles that carry a label.
Carrying(b) == {k \in 1..Len(articles) : articles[k].political_bias = b}

\* C1: process_news_topic never lets an exception through: whatever the
\* source provider, the store, the generator and the publisher do, no
\* exception leaves the call, a run that has not returned can take its next
\* step, and a run that has returned holds a ProcessingResult.
C1_NeverPropagates ==
    /\ raised = None
    /\ ~Done => ENABLED Next
    /\ Done => result # None /\ DOMAIN Res = DOMAIN CreateErrorResult(<<>>)

\* C1 witness: a finished run in which the store (search and add), the
\* generator and the publisher all raised.
C1_Witness ==
    /\ Done
    /\ FailedCalls("search") # <<>>
    /\ FailedCalls("bias_summary") # <<>>
    /\ FailedCalls("neutral_summary") # <<>>
    /\ FailedCalls("add") # <<>>
    /\ FailedCalls("publish") # <<>>

\* C2: with topic_title, topic_url and topic_description all absent or
\* empty, the run ends in the error variant and no external call is made
\* at any point of it.
AllFieldsEmpty ==
    /\ input.topic_title \in {None, Some(<<>>)}
    /\ input.topic_url = None
    /\ input.topic_description \in {None, Some(<<>>)}

C2_EmptyInputNoCalls ==
    AllFieldsEmpty =>
        /\ log = <<>>
        /\ store = History
        /\ pc \in {"start", "done"}
        /\ Done => /\ result # None
                   /\ Res.topic = <<"Error">>
                   /\ Res.articles_processed = <<>>
                   /\ Res.bias_summaries = <<>>
                   /\ Res.neutral_summary.summary # <<>>

\* C2 witness: a finished run whose title and description are empty strings.
C2_Witness == Done /\ AllFieldsEmpty /\ input.topic_title = Some(<<>>)

\* C3: when discovery yields no article the result is the error variant:
\* topic "Error", every list empty, no post id, and a non-empty message as
\* the neutral summary's text.
DiscoveryEmpty == Done /\ CallsOf("find") # <<>> /\ articles = <<>>

C3_EmptyDiscoveryErrorVariant ==
    DiscoveryEmpty =>
        /\ result # None
        /\ Res.topic = <<"Error">>
        /\ Res.bias_summaries = <<>>
        /\ Res.bias_visualization_data = <<>>
        /\ Res.articles_processed = <<>>
        /\ Res.neutral_summary.key_facts = <<>>
        /\ Res.neutral_summary.related_context = <<>>
        /\ Res.neutral_summary.internal_links = <<>>
        /\ Res.wordpress_post_id = None
        /\ Res.neutral_summary.summary = <<"No articles found for the given topic">>

\* C3 witness: discovery came back empty because the provider raised.
C3_Witness == DiscoveryEmpty /\ FailedCalls("find") # <<>>

\* C4: once discovery has yielded an article the result is the success
\* variant, with the search query as topic and the discovered list as
\* articles_processed, whatever fails afterwards.
C4_DiscoveredNeverError ==
    Discovered =>
        /\ raised = None
        /\ result # None
        /\ Res.topic = (IF input.topic_title # None /\ input.topic_title # Some(<<>>)
                        THEN input.topic_title[1]
                        ELSE IF input.topic_description # None /\ input.topic_description # Some(<<>>)
                        THEN input.topic_description[1]
                        ELSE input.topic_url[1])
        /\ Res.topic # <<"Error">>
        /\ Res.articles_processed = articles

\* C4 witness: a run with articles in which retrieval, a per-label summary,
\* the neutral summary, persistence and publication all failed.
C4_Witness ==
    /\ Discovered
    /\ FailedCalls("search") # <<>>
    /\ FailedCalls("bias_summary") # <<>>
    /\ FailedCalls("neutral_summary") # <<>>
    /\ Len(FailedCalls("add")) = Len(articles)
    /\ FailedCalls("publish") # <<>>

\* C5: with at least one discovered article the result has exactly three
\* bias summaries, labelled Left, Center, Right in that order.
C5_ThreeSummariesInOrder ==
    Discovered =>
        /\ Len(Res.bias_summaries) = 3
        /\ Res.bias_summaries[1].political_bias = "Left"
        /\ Res.bias_summaries[2].political_bias = "Center"
        /\ Res.bias_summaries[3].political_bias = "Right"

\* C5 witness: one label only among the articles, and its generator call
\* failed.
C5_Witness ==
    /\ Discovered
    /\ Carrying("Left") = {} /\ Carrying("Right") = {}
    /\ FailedCalls("bias_summary") # <<>>

\* The generator call made for a label, as the log has it.
BiasCallOf(b) == SelectSeq(log, LAMBDA c : c.op = "bias_summary" /\ c.arg = <<b>>)

\* The source names of the discovered articles that carry a label, in
\* input order.
RECURSIVE SourceNamesOf(_, _)
SourceNamesOf(arts, b) ==
    IF arts = <<>> THEN <<>>
    ELSE (IF Head(arts).political_bias = b THEN <<Head(arts).source_name>> ELSE <<>>)
         \o SourceNamesOf(Tail(arts), b)

\* The text a label without articles gets.
SentinelOf(b) ==
    CASE b = "Left" -> <<"Inga ", "left", "-orienterade kallor rapporterade om detta amne.">>
      [] b = "Center" -> <<"Inga ", "center", "-orienterade kallor rapporterade om detta amne.">>
      [] b = "Right" -> <<"Inga ", "right", "-orienterade kallor rapporterade om detta amne.">>

\* The entry a label gets in a run without generator failures: the stripped
\* answer to its own call, or the sentinel when it has no articles.
UnfailedEntry(b) ==
    [political_bias |-> b,
     summary |-> IF Carrying(b) = {} THEN SentinelOf(b) ELSE Strip(BiasCallOf(b)[1].value),
     article_count |-> Cardinality(Carrying(b)),
     sources |-> SourceNamesOf(articles, b)]

\* C6: when the generator fails for one label, the entries of the other
\* labels are what they are in the run without that failure.
C6_FailureLeavesOtherLabels ==
    (Discovered /\ FailedCalls("bias_summary") # <<>>) =>
        \A i \in 1..3 :
            (Carrying(BiasOrder[i]) = {} \/ (BiasCallOf(BiasOrder[i]) # <<>> /\ BiasCallOf(BiasOrder[i])[1].ok))
            => /\ Len(Res.bias_summaries) = 3
               /\ Res.bias_summaries[i] = UnfailedEntry(BiasOrder[i])

\* C6 witness: the Left call failed, the Center call answered, Right has no
\* articles.
C6_Witness ==
    /\ Discovered
    /\ BiasCallOf("Left") # <<>> /\ ~BiasCallOf("Left")[1].ok
    /\ BiasCallOf("Center") # <<>> /\ BiasCallOf("Center")[1].ok
    /\ Carrying("Right") = {}

\* The neutral summary of the same run with the summary call answered.
NeutralWithoutFailure(reply, facts_outcome) ==
    GenerateNeutralSummary(articles, related_context, Query, Returned(reply), facts_outcome)

\* C7: the sub-steps of generate_neutral_summary fail independently: when
\* the summary call alone fails, key_facts, related_context and
\* internal_links are what they are without that failure; when the key-facts
\* call alone fails, the summary text, related_context and internal_links
\* are.
C7_SubStepsIndependent ==
    Discovered =>
        /\ FailedCalls("neutral_summary") # <<>> =>
              \A reply \in GenReplies, facts_outcome \in {o \in KeyFactsOutcomes : o.ok} :
                  /\ Res.neutral_summary.key_facts
                        = NeutralWithoutFailure(reply, facts_outcome).key_facts
                  /\ Res.neutral_summary.related_context
                        = NeutralWithoutFailure(reply, facts_outcome).related_context
                  /\ Res.neutral_summary.internal_links
                        = NeutralWithoutFailure(reply, facts_outcome).internal_links
        /\ FailedCalls("key_facts") # <<>> =>
              \A facts_outcome \in KeyFactsOutcomes :
                  LET other == NeutralWithoutFailure(CallsOf("neutral_summary")[1].value, facts_outcome)
                  IN  /\ Res.neutral_summary.summary = other.summary
                      /\ Res.neutral_summary.related_context = other.related_context
                      /\ Res.neutral_summary.internal_links = other.internal_links

\* C8: when context retrieval fails in a run with articles, the run ends in
\* the success variant, related_context and internal_links are empty, the
\* neutral-summary generator is called once, without context, and its
\* answer (stripped) is the summary text.
C8_RetrievalFailureDegrades ==
    (Discovered /\ FailedCalls("search") # <<>>) =>
        /\ result # None
        /\ Res.articles_processed = articles
        /\ Res.neutral_summary.related_context = <<>>
        /\ Res.neutral_summary.internal_links = <<>>
        /\ Len(CallsOf("neutral_summary")) = 1
        /\ CallsOf("neutral_summary")[1].arg = <<"Ingen relevant historisk kontext hittades.">>
        /\ CallsOf("neutral_summary")[1].ok =>
              Res.neutral_summary.summary = Strip(CallsOf("neutral_summary")[1].value)

\* C8 witness: retrieval failed and the generator answered the summary call.
C8_Witness ==
    /\ Discovered
    /\ FailedCalls("search") # <<>>
    /\ CallsOf("neutral_summary")[1].ok
    /\ Res.neutral_summary.summary = <<"Sammanfattning.">>

\* C9: a label without articles gets its fixed sentinel, article_count 0 and
\* no sources, and no generator call; the per-label generator calls are as
\* many as the labels that have articles.
C9_EmptyLabelSentinel ==
    Discovered =>
        /\ \A i \in 1..3 :
              Carrying(BiasOrder[i]) = {} =>
                  /\ Len(Res.bias_summaries) = 3
                  /\ Res.bias_summaries[i].summary = SentinelOf(BiasOrder[i])
                  /\ Res.bias_summaries[i].article_count = 0
                  /\ Res.bias_summaries[i].sources = <<>>
                  /\ BiasCallOf(BiasOrder[i]) = <<>>
        /\ Len(CallsOf("bias_summary")) = Cardinality({b \in Labels : Carrying(b) # {}})

\* C9 witness: two labels have no articles, one generator call was made.
C9_Witness ==
    /\ Discovered
    /\ Carrying("Left") = {} /\ Carrying("Center") = {}
    /\ Len(CallsOf("bias_summary")) = 1

\* C10: each label's article_count is the number of discovered articles
\* with that label and its sources are their source names in input order,
\* also beyond the prompt limit; the three counts add up to the number of
\* discovered articles.
C10_CountsAndSources ==
    Discovered =>
        /\ Len(Res.bias_summaries) = 3
        /\ \A i \in 1..3 :
              /\ Res.bias_summaries[i].article_count = Cardinality(Carrying(BiasOrder[i]))
              /\ Res.bias_summaries[i].sources = SourceNamesOf(articles, BiasOrder[i])
              /\ Len(Res.bias_summaries[i].sources) = Res.bias_summaries[i].article_count
        /\ Res.bias_summaries[1].article_count + Res.bias_summaries[2].article_count
              + Res.bias_summaries[3].article_count = Len(articles)

\* C10 witness: more articles carry one label than fit the prompt.
C10_Witness ==
    /\ Discovered
    /\ Cardinality(Carrying("Left")) > PromptArticleLimit
    /\ Res.bias_summaries[1].sources[2] = "Expressen"

\* The outcome a logged call had.
OutcomeOf(c) == [ok |-> c.ok, value |-> c.value]

\* The result of the run worked out from its input and from what
\* discovery, retrieval, the generator and the publisher did, the adds to
\* the store left out.
ResultWithoutStore ==
    LET find == OutcomeOf(CallsOf("find")[1])
        extra == IF CallsOf("extract") = <<>> THEN None ELSE CallsOf("extract")[1].value
        arts == DiscoverAndExtractArticles(input, find, extra)
        context == RetrieveRelatedContext(OutcomeOf(CallsOf("search")[1])).value
        outcomes == [b \in Labels |->
                        IF BiasCallOf(b) = <<>> THEN Raised(<<>>) ELSE OutcomeOf(BiasCallOf(b)[1])]
        facts == IF CallsOf("key_facts") = <<>> THEN Raised(<<>>)
                 ELSE OutcomeOf(CallsOf("key_facts")[1])
    IN  MkResult(Query,
                 GenerateNeutralSummary(arts, context, Query,
                                        OutcomeOf(CallsOf("neutral_summary")[1]), facts),
                 ProcessAllBiasSummaries(arts, outcomes),
                 GenerateBiasVisualizationData(arts), arts, None)

\* C11: the result does not depend on persistence: whichever adds of the
\* batch fail (none, some or all), the topic, the neutral summary, the
\* per-label summaries, the visualization entries and the article list of
\* the result are those that follow from the input and from the behaviour
\* of discovery, retrieval and the generator alone.
C11_ResultIndependentOfStore ==
    Discovered =>
        /\ result # None
        /\ [Res EXCEPT !.wordpress_post_id = None] = ResultWithoutStore

\* C11 witness: a batch of two articles of which one add failed and the
\* other went through, with summaries generated.
C11_Witness ==
    /\ Discovered
    /\ Len(articles) = 2
    /\ Len(FailedCalls("add")) = 1
    /\ FailedCalls("bias_summary") = <<>>
    /\ Res.neutral_summary.key_facts # <<>>

\* The run tried to publish and got no id: the publisher raised or answered
\* without one.
PublicationFailed ==
    /\ CallsOf("publish") # <<>>
    /\ ~CallsOf("publish")[1].ok \/ CallsOf("publish")[1].value = None

\* C12: the publisher is called only when a WordPress url is configured,
\* and at most once; when publication fails the post id stays null and the
\* result is otherwise the success result built before publication; a post
\* id in the result is the id the publisher returned in this run.
C12_PublicationFailureKeepsResult ==
    /\ CallsOf("publish") # <<>> => wordpress_url /\ Len(CallsOf("publish")) = 1
    /\ Discovered =>
          /\ result # None
          /\ Res = MkResult(Query, neutral_summary, bias_summaries,
                            bias_visualization_data, articles, Res.wordpress_post_id)
          /\ Res.topic # <<"Error">>
          /\ PublicationFailed => Res.wordpress_post_id = None
          /\ Res.wordpress_post_id # None =>
                /\ CallsOf("publish") # <<>>
                /\ CallsOf("publish")[1].ok
                /\ CallsOf("publish")[1].value = Res.wordpress_post_id
    /\ (Done /\ ~Discovered) => Res.wordpress_post_id = None /\ CallsOf("publish") = <<>>

\* C12 witness: the publisher raised in a run whose summaries were generated.
C12_Witness ==
    /\ Discovered
    /\ FailedCalls("publish") # <<>>
    /\ Res.wordpress_post_id = None
    /\ Len(Res.bias_summaries) = 3
    /\ Res.neutral_summary.summary = <<"Sammanfattning.">>

\* The stage of the run a call belongs to: discovery, retrieval, the
\* generator calls of steps 3 and 4, persistence, publication.
StageOf(op) ==
    CASE op \in {"find", "extract"} -> 0
      [] op = "search" -> 1
      [] op \in {"bias_summary", "neutral_summary", "key_facts"} -> 2
      [] op = "add" -> 3
      [] op = "publish" -> 4

\* The positions of the calls of one operation in the log.
Pos(op) == {i \in 1..Len(log) : log[i].op = op}

\* C17: the adds to the store come after the similarity search and after
\* every generator call, with the per-label summaries, the neutral summary
\* and the visualization entries finished; the similarity search comes
\* before the neutral-summary call; and the context of a run holds only
\* rows that were in the store before the run, none the run wrote.
C17_StoreAfterSynthesis ==
    /\ \A i \in 1..(Len(log) - 1) : StageOf(log[i].op) <= StageOf(log[i + 1].op)
    /\ Pos("add") # {} =>
          /\ Pos("search") # {} /\ Pos("neutral_summary") # {}
          /\ Len(bias_summaries) = 3
          /\ neutral_summary.summary # <<>>
          /\ Len(bias_visualization_data) = Len(articles)
    /\ Pos("neutral_summary") # {} => Pos("search") # {}
    /\ related_context # <<>> =>
          /\ {related_context[k] : k \in 1..Len(related_context)} \subseteq History
          /\ {related_context[k] : k \in 1..Len(related_context)}
                \cap {ArticleRow(articles[k]) : k \in 1..Len(articles)} = {}

\* C17 witness: a finished run that retrieved context and then stored its
\* articles.
C17_Witness ==
    /\ Discovered
    /\ related_context # <<>>
    /\ Pos("add") # {} /\ FailedCalls("add") = <<>>
    /\ Pos("key_facts") # {}

\* Whether a field of the input is set: a str that is not empty, a url.
TitleSet == input.topic_title # None /\ input.topic_title # Some(<<>>)
DescriptionSet == input.topic_description # None /\ input.topic_description # Some(<<>>)
UrlSet == input.topic_url # None

\* The query the claim gives an input with a field set.
QueryByPriority ==
    IF TitleSet THEN input.topic_title[1]
    ELSE IF DescriptionSet THEN input.topic_description[1]
    ELSE input.topic_url[1]

\* C18: the search query is the title when a non-empty title is set, else
\* the description when a non-empty one is set, else the url; the query
\* fails exactly when none is set; the topic of a success result is the
\* query.
C18_QueryPriority ==
    pc # "start" =>
        /\ (TitleSet \/ DescriptionSet \/ UrlSet) =>
              /\ pc = "discover" \/ (log # <<>> /\ log[1].op = "find" /\ log[1].arg = QueryByPriority)
              /\ Discovered => result # None /\ Res.topic = QueryByPriority
        /\ ~(TitleSet \/ DescriptionSet \/ UrlSet) =>
              /\ Done /\ log = <<>> /\ result # None
              /\ Res.neutral_summary.summary
                    = <<"Processing error: ", "At least one input field must be provided">>

\* C18 witness: a success result for an input with an empty title, an empty
\* description and a url: the topic is the url.
C18_Witness ==
    /\ Discovered
    /\ input.topic_title = Some(<<>>) /\ input.topic_description = Some(<<>>)
    /\ Res.topic = UnknownUrl

\* Whether a row of the table is the entry of an article: it carries the
\* article's url and its text (after the title).
EntryIsFor(r, article) ==
    LET n == Len(r.content.of)
        m == Len(article.content)
    IN  /\ "url" \in DOMAIN r.metadata
        /\ r.metadata.url = article.url
        /\ n >= m
        /\ SubSeq(r.content.of, n - m + 1, n) = article.content

\* Two articles with the same url and the same full text.
SameArticle(a, b) == a.url = b.url /\ a.content = b.content

\* The add_article calls made so far: the writer and the index of the call.
AddsMade == {<<w, k>> \in Writers \X (1..(MaxBatch + 1)) : k <= Len(writers[w].adds)}
AddOf(wk) == writers[wk[1]].adds[wk[2]]
ArticleOf(wk) == writers[wk[1]].batch[AddOf(wk).pos]

\* C13: an add of an article that was added before (same url and text), by
\* add_article directly or within a batch, returns the id the earlier add
\* returned, leaves the table with as many rows as before it, and the table
\* has exactly one row with that id; a first add makes the table one row
\* larger.
C13_SecondAddUpserts ==
    \A wk \in AddsMade :
        AddOf(wk).ok =>
            /\ AddOf(wk).again =>
                  /\ AddOf(wk).after = AddOf(wk).before
                  /\ Cardinality({r \in store : r.id = AddOf(wk).value}) = 1
            /\ ~AddOf(wk).again => AddOf(wk).after = AddOf(wk).before + 1
            /\ \A other \in AddsMade :
                  (AddOf(other).ok /\ SameArticle(ArticleOf(other), ArticleOf(wk)))
                      => AddOf(other).value = AddOf(wk).value

\* C13 witness: a batch with the same article twice, both adds went
\* through, and the ingestion of feeds added the page once more.
C13_Witness ==
    /\ writers["run1"].batch = <<ArtL1, ArtL1>>
    /\ Len(writers["run1"].article_ids) = 2
    /\ writers["run1"].article_ids[1] = writers["run1"].article_ids[2]
    /\ writers["rss"].batch = <<ArtL1Refetched>>
    /\ writers["rss"].processed_count = 1
    /\ Cardinality(store) = Cardinality(History) + 1

\* The ids of the adds of a writer that went through, in the order of the
\* calls.
RECURSIVE IdsOfAdds(_)
IdsOfAdds(adds) ==
    IF adds = <<>> THEN <<>>
    ELSE (IF Head(adds).ok THEN <<Head(adds).value>> ELSE <<>>) \o IdsOfAdds(Tail(adds))

\* C14: add_articles_batch goes on after a failing add: when the loop is
\* over, add_article was called once for every article of the batch, in
\* order; every article whose add did not fail has its entry in the table;
\* the ids returned are those of the adds that went through, in input
\* order; and the batch has not raised.
C14_BatchContinuesOnError ==
    \A w \in BatchWriters :
        /\ ~writers[w].raised
        /\ writers[w].rest = <<>> =>
              /\ Len(writers[w].adds) = Len(writers[w].batch)
              /\ \A k \in 1..Len(writers[w].adds) :
                    /\ writers[w].adds[k].pos = k
                    /\ writers[w].adds[k].ok =>
                          \E r \in store : /\ r.id = writers[w].adds[k].value
                                           /\ EntryIsFor(r, writers[w].batch[k])
              /\ writers[w].article_ids = IdsOfAdds(writers[w].adds)
              /\ Len(writers[w].article_ids)
                    = Cardinality({k \in 1..Len(writers[w].adds) : writers[w].adds[k].ok})

\* C14 witness: a batch of two whose first add failed and whose second went
\* through.
C14_Witness ==
    /\ writers["run1"].rest = <<>>
    /\ Len(writers["run1"].batch) = 2
    /\ ~writers["run1"].adds[1].ok
    /\ writers["run1"].adds[2].ok
    /\ Len(writers["run1"].article_ids) = 1

\* A writer has ingested an article (same url and text).
IngestedBy(w, article) ==
    \E k \in 1..Len(writers[w].adds) :
        writers[w].adds[k].ok /\ SameArticle(writers[w].batch[writers[w].adds[k].pos], article)

\* C15: however the adds of two runs and of the ingestion of feeds
\* interleave, the table never holds two entries for one article (same url
\* and text), and holds exactly one once writers have ingested it.
C15_OneEntryPerArticle ==
    \A article \in StorePool :
        /\ Cardinality({r \in store : EntryIsFor(r, article)}) <= 1
        /\ (\E w \in Writers : IngestedBy(w, article))
              => Cardinality({r \in store : EntryIsFor(r, article)}) = 1

\* C15 witness: both runs and the ingestion of feeds have ingested the same
\* page, and every loop is over.
C15_Witness ==
    /\ \A w \in Writers : writers[w].rest = <<>> /\ IngestedBy(w, ArtL1)
    /\ writers["run2"].batch = <<ArtC, ArtL1Refetched>>
    /\ Cardinality({r \in store : EntryIsFor(r, ArtL1)}) = 1

\* Two searches with the same query, limit and threshold on the same table.
SameSearch(a, b) ==
    /\ a.query = b.query /\ a.limit = b.limit /\ a.threshold = b.threshold
    /\ a.table = b.table

\* The matches of a search are at most `limit`, by non-increasing score, and
\* none below the threshold.
Ranked(search) ==
    /\ Len(search.matches) <= search.limit
    /\ \A i \in 1..Len(search.matches) : search.matches[i][2] >= search.threshold
    /\ \A i \in 1..(Len(search.matches) - 1) : search.matches[i][2] >= search.matches[i + 1][2]

Called(method) == called # None /\ called[1].method = method

\* The articles of a list that carry a label, in the order of the list.
RECURSIVE WithLabel(_, _)
WithLabel(arts, b) ==
    IF arts = <<>> THEN <<>>
    ELSE (IF Head(arts).political_bias = b THEN <<Head(arts)>> ELSE <<>>)
         \o WithLabel(Tail(arts), b)

\* C19: _group_articles_by_bias returns a mapping with exactly the keys
\* Left, Center and Right; each group is the articles of the input with
\* that label, in input order; so an article with one of the three labels
\* is in exactly one group, and an article with another label is in none.
C19_GroupsByLabel ==
    Called("_group_articles_by_bias") =>
        LET arts == called[1].articles
            grouped == called[1].returned
        IN  /\ DOMAIN grouped = {"Left", "Center", "Right"}
            /\ \A b \in DOMAIN grouped :
                  /\ grouped[b] = WithLabel(arts, b)
                  /\ \A i \in 1..Len(grouped[b]) : grouped[b][i].political_bias = b
            /\ Len(grouped["Left"]) + Len(grouped["Center"]) + Len(grouped["Right"])
                  = Cardinality({k \in 1..Len(arts) :
                                    arts[k].political_bias \in {"Left", "Center", "Right"}})

\* C19 witness: a list with an article of another label between two of the
\* same label.
C19_Witness ==
    /\ Called("_group_articles_by_bias")
    /\ called[1].articles = <<ArtNoName, ArtOther, ArtL1>>
    /\ called[1].returned["Left"] = <<ArtNoName, ArtL1>>
    /\ called[1].returned["Center"] = <<>>

\* Whether an article can be mapped to a visualization entry.
WellFormed(article) ==
    article.source_name # "(null)" /\ article.political_bias \in {"Left", "Center", "Right"}

\* The entries of the well-formed articles of a list, in order.
RECURSIVE EntriesOfWellFormed(_)
EntriesOfWellFormed(arts) ==
    IF arts = <<>> THEN <<>>
    ELSE (IF WellFormed(Head(arts))
          THEN <<[source_name |-> Head(arts).source_name, bias |-> Head(arts).political_bias,
                  url |-> Head(arts).url]>>
          ELSE <<>>) \o EntriesOfWellFormed(Tail(arts))

\* C20: the visualization list has one entry (source_name, bias, url) per
\* well-formed article, in input order, without deduplication: an article
\* that cannot be mapped is skipped and the others keep their entries.
C20_VisualizationSkipsPerItem ==
    Called("generate_bias_visualization_data") =>
        called[1].returned = EntriesOfWellFormed(called[1].articles)

\* C21: in every result a run returns, the neutral summary has at most 5
\* key facts, at most 3 related-context snippets and at most 3 internal
\* links, however many rows the search returned and however many lines the
\* key-facts generator answered.
C21_NeutralSummaryBounded ==
    result # None =>
        /\ Len(Res.neutral_summary.key_facts) <= 5
        /\ Len(Res.neutral_summary.related_context) <= 3
        /\ Len(Res.neutral_summary.internal_links) <= 3

\* C21 witness: the search returned four rows and the key-facts generator
\* seven facts; the result keeps five facts and three snippets.
C21_Witness ==
    /\ Done /\ result # None
    /\ Len(related_context) > 3
    /\ CallsOf("key_facts") # <<>>
    /\ CallsOf("key_facts")[1].ok
    /\ Len(CleanFacts(Split(CallsOf("key_facts")[1].value, "\n"))) > 5
    /\ Len(Res.neutral_summary.key_facts) = 5
    /\ Len(Res.neutral_summary.related_context) = 3

\* What the handler was asked and what it answered.
Request == called[1].request
Responded == called # None /\ called[1].returned # None
Response == called[1].returned[1]

\* Some field of the request is set to a non-empty value.
SomeFieldSet ==
    Truthy(Request.topic_title) \/ Truthy(Request.topic_url) \/ Truthy(Request.topic_description)

\* The request is no POST, its body is no valid JSON, or no field is set.
Malformed == Request.method # "POST" \/ Request.kind = "invalid" \/ ~SomeFieldSet

\* process_news_topic was not called: no call counted, no step taken.
NotInvoked == called[1].invoked = 0 /\ pc = "idle" /\ log = <<>> /\ result = None

\* C22 as stated: a request that is no POST, whose body is no valid JSON or
\* that sets none of the three fields is answered with 405 or 400 (200 and
\* an empty body for OPTIONS), and process_news_topic is not called.
C22_RejectsBeforeCore ==
    (called # None /\ Malformed) =>
        /\ Responded
        /\ NotInvoked
        /\ IF Request.method = "OPTIONS"
           THEN Response.statusCode = 200 /\ Response.status = Null /\ Response.data = None
           ELSE Response.statusCode \in {405, 400} /\ Response.status = "error"

\* C22, amended: such a request is answered with 405 (no POST), 400 (the
\* text is no JSON, or an object sets no field) or 500 (the JSON value is
\* no object), with 200 and an empty body for OPTIONS, and
\* process_news_topic is not called.
C22_RejectsBeforeCoreWithStatus ==
    (called # None /\ Malformed) =>
        /\ Responded
        /\ NotInvoked
        /\ Response.data = None
        /\ IF Request.method = "OPTIONS"
           THEN Response.statusCode = 200 /\ Response.status = Null
           ELSE /\ Response.status = "error"
                /\ Response.statusCode =
                      (IF Request.method # "POST" THEN 405
                       ELSE IF Request.kind = "invalid" THEN 400
                       ELSE IF Request.kind # "object" THEN 500
                       ELSE 400)

\* C22 witness: a POST whose object has the three fields, all empty, was
\* answered with 400.
C22_Witness ==
    /\ Responded
    /\ Request.method = "POST" /\ Request.kind = "object"
    /\ Request.topic_title = Some(<<>>) /\ Request.topic_url = Some(<<>>)
    /\ Response.statusCode = 400

C24_NoDuplicateByDedupKey ==
    CallsOf("find") # <<>> =>
        /\ \A i, j \in 1..Len(articles) :
              (articles[i].url = articles[j].url /\ articles[i].content = articles[j].content)
                  => i = j
        /\ (CallsOf("extract") # <<>> /\ CallsOf("extract")[1].value # None) =>
              LET found == CallsOf("find")[1].value
                  fetched == CallsOf("extract")[1].value[1]
              IN  (articles = Append(found, fetched))
                      <=> (\A k \in 1..Len(found) :
                              ~(found[k].url = fetched.url /\ found[k].content = fetched.content))

\* The text a label gets when its generator call failed.
FailedTextOf(b) == <<"Kunde inte generera sammanfattning for ", b, "-orienterade kallor.">>

\* C25: when the generator fails for a label that has articles, the label's
\* summary is the "could not generate" text of that label, which is not the
\* "no coverage" text of any label, and the entry still has the count and
\* the sources of the label's articles.
C25_FailedLabelDistinguishable ==
    Discovered =>
        \A i \in 1..3 :
            (BiasCallOf(BiasOrder[i]) # <<>> /\ ~BiasCallOf(BiasOrder[i])[1].ok) =>
                /\ Len(Res.bias_summaries) = 3
                /\ Res.bias_summaries[i].summary = FailedTextOf(BiasOrder[i])
                /\ \A c \in Labels : Res.bias_summaries[i].summary # SentinelOf(c)
                /\ Res.bias_summaries[i].article_count = Cardinality(Carrying(BiasOrder[i]))
                /\ Res.bias_summaries[i].article_count > 0
                /\ Res.bias_summaries[i].sources = SourceNamesOf(articles, BiasOrder[i])

\* C25 witness: the call for Left failed over two Left articles and Right
\* has no articles: the result holds both texts.
C25_Witness ==
    /\ Discovered
    /\ BiasCallOf("Left") # <<>> /\ ~BiasCallOf("Left")[1].ok
    /\ Cardinality(Carrying("Left")) = 2
    /\ Carrying("Right") = {}
    /\ Res.bias_summaries[1].summary = FailedTextOf("Left")
    /\ Res.bias_summaries[3].summary = SentinelOf("Right")

\* C26: no external call is made twice in a run: at most one find, one
\* similarity search, one generator call per label, one for the neutral
\* summary, one for the key facts, one add per discovered article (in the
\* order of the list) and one publication, also when a call failed.
C26_NoCallRetried ==
    /\ Len(CallsOf("find")) <= 1
    /\ Len(CallsOf("search")) <= 1
    /\ \A b \in Labels : Len(BiasCallOf(b)) <= 1
    /\ Len(CallsOf("neutral_summary")) <= 1
    /\ Len(CallsOf("key_facts")) <= 1
    /\ Len(CallsOf("add")) <= Len(articles)
    /\ \A k \in 1..Len(CallsOf("add")) : CallsOf("add")[k].arg = articles[k].url
    /\ Len(CallsOf("publish")) <= 1

\* C26 witness: a finished run in which the search, a label's call, the
\* key-facts call, every add and the publication failed, each made once.
C26_Witness ==
    /\ Done
    /\ Len(articles) = 2
    /\ Len(FailedCalls("search")) = 1
    /\ Len(FailedCalls("bias_summary")) = 1
    /\ Len(CallsOf("neutral_summary")) = 1
    /\ Len(FailedCalls("key_facts")) = 1
    /\ Len(FailedCalls("add")) = 2
    /\ Len(FailedCalls("publish")) = 1

\* C27: the key-facts call is issued only after the neutral-summary call
\* of the run returned, with the text that call returned; in a run whose
\* neutral-summary call failed there is no key-facts call.
C27_KeyFactsAfterSummary ==
    /\ \A k \in 1..Len(log) :
          log[k].op = "key_facts" =>
              \E j \in 1..(k - 1) :
                  /\ log[j].op = "neutral_summary"
                  /\ log[j].ok
                  /\ log[k].arg = log[j].value
    /\ FailedCalls("neutral_summary") # <<>> => CallsOf("key_facts") = <<>>

\* C27 witness: a finished run whose key-facts call came right after the
\* summary call and got its text as returned, before stripping.
C27_Witness ==
    /\ Done
    /\ \E k \in 2..Len(log) :
          /\ log[k].op = "key_facts"
          /\ log[k - 1].op = "neutral_summary"
          /\ log[k].arg = <<" ", "Sammanfattning.", "\n">>
    /\ Res.neutral_summary.summary = <<"Sammanfattning.">>

\* What process_rss_feeds returned, and the items it was given.
RssReturned == called[1].returned
FeedItems == CallsOf("rss")[1].value

\* C28: process_rss_feeds calls the source provider and the store's add
\* only, never the generator, the similarity search or the publisher; an
\* item that fails does not stop the items after it; items_processed is
\* the number of adds that went through, at most 10 and at most the number
\* of items found.
C28_RssIngestionOnly ==
    /\ \A k \in 1..Len(log) : log[k].op \in {"rss", "extract", "add"}
    /\ searched = <<>> /\ pc = "idle" /\ result = None
    /\ (called # None /\ "items_processed" \in DOMAIN RssReturned) =>
          /\ RssReturned.items_processed = Len(CallsOf("add")) - Len(FailedCalls("add"))
          /\ RssReturned.items_processed <= 10
          /\ RssReturned.items_processed <= Len(FeedItems)
          /\ Len(CallsOf("extract"))
                = Len(SelectSeq(SubSeq(FeedItems, 1, Min(Len(FeedItems), 10)), HasSourceInfo))
          /\ \A k \in 1..Len(CallsOf("add")) :
                CallsOf("add")[k].ok => \E r \in store : r.id = CallsOf("add")[k].value

\* C28 witness: eleven items found; the add of the first raised, the other
\* nine of the first ten were added and counted.
C28_Witness ==
    /\ called # None
    /\ "items_found" \in DOMAIN RssReturned
    /\ RssReturned.items_found = 11
    /\ Len(FailedCalls("add")) = 1
    /\ FailedCalls("add")[1].arg = FeedItems[1]
    /\ RssReturned.items_processed = 9

\* C29: two articles whose (url, text) pairs differ get different ids, so
\* that after a batch every article of it has its own entry in the table.
C29_IdsSeparateArticles ==
    (Called("add_articles_batch") /\ Len(called[1].returned) = Len(called[1].articles)) =>
        /\ \A i, j \in 1..Len(called[1].articles) :
              ~SameArticle(called[1].articles[i], called[1].articles[j])
                  => called[1].returned[i] # called[1].returned[j]
        /\ \A i \in 1..Len(called[1].articles) :
              \E r \in store : EntryIsFor(r, called[1].articles[i])

\* C30: a run that ends in the error variant because discovery yielded no
\* article, also when the provider raised, has not read or written the
\* store and has called neither the generator nor the publisher.
C30_EmptyDiscoveryTouchesNothing ==
    DiscoveryEmpty =>
        /\ store = History
        /\ table_checked = FALSE
        /\ \A k \in 1..Len(log) : log[k].op \in {"find", "extract"}
        /\ related_context = <<>> /\ bias_summaries = <<>>
        /\ Res.topic = <<"Error">>

\* C30 witness: the provider raised in a run with an input url and a
\* WordPress url configured.
C30_Witness ==
    /\ DiscoveryEmpty
    /\ FailedCalls("find") # <<>>
    /\ wordpress_url
    /\ Truthy(input.topic_url)

====
